---- MODULE Spec2Model ----
(***************************************************************************)
(* Roadmap Visual (swheller1/roadmap-visual): the timeline computation     *)
(* engine.  The module models                                              *)
(*   - RoadmapVisual (update / parseData / parseSettings / render /        *)
(*     buildRows / toggleCollapse / scroll handlers),                      *)
(*   - CoordinateEngine.calculateVisibleRows (viewport culling),           *)
(*   - CoordinateEngine.dateToX / xToDate (IEEE-754 double arithmetic),    *)
(*   - CoordinateEngine's constructor and updateConfig,                    *)
(*   - DateService.addDays / daysBetween / getWeekNumber over the          *)
(*     JavaScript Date object (local calendar fields, daylight-saving      *)
(*     transitions).                                                       *)
(* Each unit has its own specification over the shared variables; the      *)
(* variable "unit" names the unit a behaviour exercises.                   *)
(***************************************************************************)
EXTENDS Integers, Sequences, FiniteSets, TLC

VARIABLES
    unit,             \* which unit this behaviour exercises
    \* ---- RoadmapVisual fields ----
    hostTable,        \* the host's data table (rows of the categorical data view)
    workItems,        \* this.workItems
    settings,         \* this.settings
    collapsed,        \* this.collapsed
    allRows,          \* this.allRows
    renderedRowIds,   \* this.renderedRowIds
    rowPositions,     \* this.rowPositions (the keys; y/height are those of the row)
    domRows,          \* positions in allRows of the rows appended to the DOM by render
    currentScrollTop, \* this.currentScrollTop
    view,             \* what the container shows: "blank", "noData", "noItems", "roadmap"
    zone,             \* the time zone of the process the visual runs in
    viewStart,        \* this.viewStart
    viewEnd,          \* this.viewEnd
    connectors,       \* the connectors appended to the dependency layer by render
    events,           \* the eventService calls of the last update()
    \* ---- CoordinateEngine.calculateVisibleRows call ----
    cullArgs,         \* [rows, scrollTop, viewportHeight, totalItems] held by the caller
    cullOut,          \* results of the calls made so far (sequence of RowBounds[])
    \* ---- DateService / CoordinateEngine date arithmetic ----
    dateArgs,         \* arguments of the call
    dateOut,          \* result of the call
    engine,           \* a CoordinateEngine: its config and its derived fields
    calls             \* number of calls a function-level behaviour has made

visualVars == <<hostTable, workItems, settings, collapsed, allRows,
                renderedRowIds, rowPositions, domRows, currentScrollTop, view,
                zone, viewStart, viewEnd, connectors, events>>
cullVars == <<cullArgs, cullOut>>
dateVars == <<dateArgs, dateOut, engine>>
vars == <<unit, visualVars, cullVars, dateVars, calls>>

(***************************************************************************)
(* Generic helpers                                                         *)
(***************************************************************************)
Range(s) == {s[i] : i \in 1..Len(s)}

\* a function with domain 1..n as a sequence whose elements are computed once
AsSeq(f) == f \o <<>>

\* s[lo] + ... + s[hi]
RECURSIVE SumRange(_, _, _)
SumRange(s, lo, hi) ==
    IF lo > hi THEN 0
    ELSE IF lo = hi THEN s[lo]
    ELSE LET mid == (lo + hi) \div 2
         IN  SumRange(s, lo, mid) + SumRange(s, mid + 1, hi)

\* ss[lo] \o ... \o ss[hi]
RECURSIVE Flatten(_, _, _)
Flatten(ss, lo, hi) ==
    IF lo > hi THEN <<>>
    ELSE IF lo = hi THEN ss[lo]
    ELSE LET mid == (lo + hi) \div 2
         IN  Flatten(ss, lo, mid) \o Flatten(ss, mid + 1, hi)

Abs(x) == IF x < 0 THEN -x ELSE x
Max(a, b) == IF a >= b THEN a ELSE b
Min(a, b) == IF a <= b THEN a ELSE b

\* Array.prototype.sort((a, b) => key(a) - key(b)): a stable sort (ECMAScript
\* 2019).  keys[i] is the key of s[i]; the element at position i lands after
\* every element with a smaller key and after the earlier elements with an
\* equal key.
stableSortByKey(s, keys) ==
    LET n == Len(s)
        rank == AsSeq([i \in 1..n |->
                    Cardinality({j \in 1..n :
                        keys[j] < keys[i] \/ (keys[j] = keys[i] /\ j < i)}) + 1])
    IN  AsSeq([p \in 1..n |-> s[CHOOSE i \in 1..n : rank[i] = p]])

(***************************************************************************)
(* constants.ts                                                            *)
(***************************************************************************)
WORK_ITEM_TYPES == <<"Epic", "Milestone", "Feature">>
ROW_DENSITIES == {"compact", "normal", "comfortable"}
ROW_HEIGHTS ==
    [compact     |-> [Epic |-> 32, Milestone |-> 28, Feature |-> 30, GroupHeader |-> 30],
     normal      |-> [Epic |-> 48, Milestone |-> 40, Feature |-> 44, GroupHeader |-> 44],
     comfortable |-> [Epic |-> 56, Milestone |-> 48, Feature |-> 52, GroupHeader |-> 52]]
ENABLE_THRESHOLD == 100
MIN_VISIBLE_ITEMS == 20
BUFFER_PX == 200

(***************************************************************************)
(* The JavaScript Date object (ECMAScript, "Date Objects").  A Date is its *)
(* time value.  Every time of the model is a whole minute, so time values  *)
(* are counted in minutes since 1970-01-01T00:00Z and a day, MS_PER_DAY    *)
(* milliseconds, is TicksPerDay minutes.  The time zone of the process is  *)
(* the parameter z of the operations that read or write local fields.      *)
(***************************************************************************)
MS_PER_DAY == 86400000
TicksPerDay == MS_PER_DAY \div (60 * 1000)

\* ECMAScript InLeapYear, DayFromYear
InLeapYear(y) == (y % 4 = 0 /\ y % 100 # 0) \/ y % 400 = 0
DayFromYear(y) ==
    365 * (y - 1970) + ((y - 1969) \div 4) - ((y - 1901) \div 100) + ((y - 1601) \div 400)

\* the day within the year on which month m (0-based) starts
MonthStarts(leap) ==
    <<0, 31, 59 + leap, 90 + leap, 120 + leap, 151 + leap, 181 + leap,
      212 + leap, 243 + leap, 273 + leap, 304 + leap, 334 + leap>>
MonthStart(y, m) == MonthStarts(IF InLeapYear(y) THEN 1 ELSE 0)[m + 1]

\* ECMAScript MakeDay(year, month, date): date may lie outside the month
MakeDay(year, month, date) ==
    DayFromYear(year + (month \div 12)) + MonthStart(year + (month \div 12), month % 12)
        + date - 1

\* ECMAScript Day, TimeWithinDay, YearFromTime, MonthFromTime, DateFromTime
Day(t) == t \div TicksPerDay
TimeWithinDay(t) == t % TicksPerDay
YearFromTime(t) ==
    CHOOSE y \in (1969 + (Day(t) \div 366))..(1971 + (Day(t) \div 365)) :
        DayFromYear(y) <= Day(t) /\ Day(t) < DayFromYear(y + 1)
DayWithinYear(t) == Day(t) - DayFromYear(YearFromTime(t))
MonthInYear(y, dayWithinYear) ==
    CHOOSE m \in 0..11 :
        /\ MonthStart(y, m) <= dayWithinYear
        /\ m = 11 \/ dayWithinYear < MonthStart(y, m + 1)
MonthFromTime(t) == MonthInYear(YearFromTime(t), DayWithinYear(t))
DateFromTime(t) == DayWithinYear(t) - MonthStart(YearFromTime(t), MonthFromTime(t)) + 1

\* the time value of year-month-date hh:mm UTC
UtcTime(y, m, d, hh, mm) == MakeDay(y, m, d) * TicksPerDay + hh * 60 + mm

\* Time zones: the offset from UTC (minutes) before the first transition and
\* the transitions [at, offset] in time order.
\* Australia/Sydney: AEST +10:00, AEDT +11:00 from the first Sunday of October
\* 02:00 to the first Sunday of April 03:00.
\* America/Havana: CST -05:00, CDT -04:00 from the second Sunday of March
\* 00:00 to the first Sunday of November 01:00.
UtcZone == [initial |-> 0, transitions |-> <<>>]
SydneyZone ==
    [initial |-> 660,
     transitions |->
        <<[at |-> UtcTime(2023, 3, 1, 16, 0), offset |-> 600],
          [at |-> UtcTime(2023, 8, 30, 16, 0), offset |-> 660],
          [at |-> UtcTime(2024, 3, 6, 16, 0), offset |-> 600],
          [at |-> UtcTime(2024, 9, 5, 16, 0), offset |-> 660],
          [at |-> UtcTime(2025, 3, 5, 16, 0), offset |-> 600],
          [at |-> UtcTime(2025, 9, 4, 16, 0), offset |-> 660],
          [at |-> UtcTime(2026, 3, 4, 16, 0), offset |-> 600],
          [at |-> UtcTime(2026, 9, 3, 16, 0), offset |-> 660]>>]
HavanaZone ==
    [initial |-> -300,
     transitions |->
        <<[at |-> UtcTime(2023, 2, 12, 5, 0), offset |-> -240],
          [at |-> UtcTime(2023, 10, 5, 5, 0), offset |-> -300],
          [at |-> UtcTime(2024, 2, 10, 5, 0), offset |-> -240],
          [at |-> UtcTime(2024, 10, 3, 5, 0), offset |-> -300],
          [at |-> UtcTime(2025, 2, 9, 5, 0), offset |-> -240],
          [at |-> UtcTime(2025, 10, 2, 5, 0), offset |-> -300],
          [at |-> UtcTime(2026, 2, 8, 5, 0), offset |-> -240],
          [at |-> UtcTime(2026, 10, 1, 5, 0), offset |-> -300]>>]
TimeZone(z) ==
    CASE z = "UTC" -> UtcZone
      [] z = "Australia/Sydney" -> SydneyZone
      [] z = "America/Havana" -> HavanaZone

\* the offset in force at time value t
pastTransitions(tz, t) == {i \in 1..Len(tz.transitions) : tz.transitions[i].at <= t}
offsetAfter(tz, past) ==
    IF past = {} THEN tz.initial
    ELSE tz.transitions[CHOOSE i \in past : \A j \in past : j <= i].offset
offsetIn(tz, t) == offsetAfter(tz, pastTransitions(tz, t))
offsetAt(z, t) == offsetIn(TimeZone(z), t)

\* the largest offset of the zone
zoneOffsets(tz) ==
    {tz.initial} \cup {tz.transitions[i].offset : i \in 1..Len(tz.transitions)}
largestOf(offsets) == CHOOSE o \in offsets : \A q \in offsets : q <= o
maxOffset(z) == largestOf(zoneOffsets(TimeZone(z)))

\* ECMAScript LocalTime(t) and UTC(t): a local time that occurs twice is the
\* earlier one, a local time that is skipped is read with the offset before
\* the transition
LocalTime(z, t) == t + offsetAt(z, t)
UTC(z, tlocal) == tlocal - offsetAt(z, tlocal - maxOffset(z))

\* new Date(year, month, date, hours, minutes)
NewDate(z, y, m, d, hh, mm) == UTC(z, MakeDay(y, m, d) * TicksPerDay + hh * 60 + mm)

getFullYear(z, t) == YearFromTime(LocalTime(z, t))
getMonth(z, t) == MonthFromTime(LocalTime(z, t))
getDate(z, t) == DateFromTime(LocalTime(z, t))

\* Date.prototype.setDate(dt): the local fields with the date replaced
setLocalDate(z, lt, dt) ==
    UTC(z, MakeDay(YearFromTime(lt), MonthFromTime(lt), dt) * TicksPerDay + TimeWithinDay(lt))
setDate(z, t, dt) == setLocalDate(z, LocalTime(z, t), dt)

\* Date.UTC(year, month, date)
DateUTC(y, m, d) == MakeDay(y, m, d) * TicksPerDay

\* Math.ceil(a / b) for integers a and b > 0 (the quotient is exact in doubles
\* for the magnitudes of the model)
Ceil(a, b) == -((-a) \div b)

(***************************************************************************)
(* DateService                                                             *)
(***************************************************************************)
\* a variant that adds days of 24 hours to the time value
addDaysFixedLength(z, date, days) == date + days * TicksPerDay

\* const result = new Date(date); result.setDate(result.getDate() + days)
addDays(z, date, days) == setDate(z, date, getDate(z, date) + days)

\* Date.UTC(d.getFullYear(), d.getMonth(), d.getDate())
localDayUtc(z, d) == DateUTC(getFullYear(z, d), getMonth(z, d), getDate(z, d))

\* a variant that counts the elapsed time between the two time values
daysBetweenElapsed(z, start, end) == Ceil(end - start, TicksPerDay)

daysBetween(z, start, end) == Ceil(localDayUtc(z, end) - localDayUtc(z, start), TicksPerDay)

(***************************************************************************)
(* The JavaScript Number (IEEE-754 binary64) for the non-negative values   *)
(* of the coordinate engine.  A double is m * 2^e with m = 0 or            *)
(* 2^52 <= m < 2^53.  m is a natural number written as a little-endian     *)
(* sequence of limbs in base 2^13, so that sums of products of limbs stay  *)
(* within 32 bits; the exponents of the model stay far from the overflow   *)
(* and subnormal ranges.  Every operation rounds to nearest, ties to even. *)
(***************************************************************************)
Precision == 53
LimbBits == 13
LimbBase == 2^LimbBits

limb(N, i) == IF i >= 1 /\ i <= Len(N) THEN N[i] ELSE 0

\* the limbs of the number whose digits c[i] (from position i on, plus the
\* carry cin) may exceed the base
RECURSIVE carryFrom(_, _, _)
carryFrom(c, i, cin) ==
    IF i > Len(c) /\ cin = 0 THEN <<>>
    ELSE LET v == limb(c, i) + cin
         IN  <<v % LimbBase>> \o carryFrom(c, i + 1, v \div LimbBase)

\* A - B for A >= B, from limb i on with borrow bin
RECURSIVE borrowFrom(_, _, _, _)
borrowFrom(A, B, i, bin) ==
    IF i > Len(A) THEN <<>>
    ELSE LET v == limb(A, i) - limb(B, i) - bin
         IN  IF v < 0 THEN <<v + LimbBase>> \o borrowFrom(A, B, i + 1, 1)
             ELSE <<v>> \o borrowFrom(A, B, i + 1, 0)

natFromInt(k) == carryFrom(<<k>>, 1, 0)
natToInt(N) ==
    SumRange(AsSeq([i \in 1..Len(N) |-> IF N[i] = 0 THEN 0 ELSE N[i] * LimbBase^(i - 1)]),
             1, Len(N))
natIsZero(N) == \A i \in 1..Len(N) : N[i] = 0
natGeq(A, B) ==
    LET differ == {i \in 1..Max(Len(A), Len(B)) : limb(A, i) # limb(B, i)}
    IN  \/ differ = {}
        \/ LET top == CHOOSE i \in differ : \A j \in differ : j <= i
           IN  limb(A, top) > limb(B, top)
natAdd(A, B) ==
    carryFrom(AsSeq([i \in 1..Max(Len(A), Len(B)) |-> limb(A, i) + limb(B, i)]), 1, 0)
natSub(A, B) == borrowFrom(A, B, 1, 0)
natMul(A, B) ==
    carryFrom(AsSeq([k \in 1..(Len(A) + Len(B) - 1) |->
                        SumRange(AsSeq([i \in 1..Len(A) |-> limb(A, i) * limb(B, k + 1 - i)]),
                                 1, Len(A))]),
              1, 0)
\* 2 * N + bit
natDouble(N, bit) ==
    carryFrom(AsSeq([i \in 1..Len(N) |-> 2 * N[i] + (IF i = 1 THEN bit ELSE 0)]), 1, 0)

bitLength(N) ==
    IF natIsZero(N) THEN 0
    ELSE LET top == CHOOSE i \in 1..Len(N) : N[i] # 0 /\ \A j \in (i + 1)..Len(N) : N[j] = 0
         IN  LimbBits * (top - 1)
                + (CHOOSE n \in 1..LimbBits : 2^(n - 1) <= N[top] /\ N[top] < 2^n)
bitAt(N, i) == (limb(N, (i \div LimbBits) + 1) \div 2^(i % LimbBits)) % 2
lowBitsZero(N, s) == \A i \in 0..(s - 1) : bitAt(N, i) = 0
shiftRight(N, s) ==
    LET a == s \div LimbBits
        b == s % LimbBits
    IN  AsSeq([j \in 1..Max(Len(N) - a, 0) |->
                  (limb(N, j + a) \div 2^b) + (limb(N, j + a + 1) % 2^b) * 2^(LimbBits - b)])
shiftLeft(N, s) ==
    LET a == s \div LimbBits
        b == s % LimbBits
    IN  AsSeq([j \in 1..(Len(N) + a + 1) |->
                  (limb(N, j - a) % 2^(LimbBits - b)) * 2^b
                    + (limb(N, j - a - 1) \div 2^(LimbBits - b))])

\* a significand in its fixed number of limbs
significand(N) ==
    AsSeq([i \in 1..((Precision + LimbBits - 1) \div LimbBits) |-> limb(N, i)])

Zero == [m |-> significand(<<>>), e |-> 0]
isZero(a) == natIsZero(a.m)

\* the double nearest to N * 2^e (plus, if sticky, a positive amount below
\* the last bit of N); ties go to the even significand
\* q is N without its s low bits: the bit below q is set, and a bit further
\* down (or sticky, or the last bit of q, for a tie) is set too
roundsUp(N, s, q, sticky) ==
    bitAt(N, s - 1) = 1 /\ (sticky \/ ~lowBitsZero(N, s - 1) \/ bitAt(q, 0) = 1)
roundedShift(N, s, q, sticky) == IF roundsUp(N, s, q, sticky) THEN natAdd(q, <<1>>) ELSE q
renormalized(r, e) ==
    IF bitLength(r) > Precision
    THEN [m |-> significand(shiftRight(r, 1)), e |-> e + 1]
    ELSE [m |-> significand(r), e |-> e]
roundBits(N, e, sticky, len) ==
    IF len = 0 THEN Zero
    ELSE IF len <= Precision
    THEN [m |-> significand(shiftLeft(N, Precision - len)), e |-> e - (Precision - len)]
    ELSE renormalized(roundedShift(N, len - Precision, shiftRight(N, len - Precision), sticky),
                      e + len - Precision)
roundToDouble(N, e, sticky) == roundBits(N, e, sticky, bitLength(N))

\* long division: n more steps from the remainder R < D and the quotient bits
\* Q so far; each step doubles the remainder and produces one quotient bit.
\* The steps are done as a first and a second half.
divideStep(R2, Q, D, bit) ==
    [q |-> natDouble(Q, bit), r |-> IF bit = 1 THEN natSub(R2, D) ELSE R2]
RECURSIVE divideSteps(_, _, _, _)
divideSteps(R, Q, D, n) ==
    IF n = 0 THEN [q |-> Q, r |-> R]
    ELSE IF n = 1
    THEN divideStep(natDouble(R, 0), Q, D, IF natGeq(natDouble(R, 0), D) THEN 1 ELSE 0)
    ELSE CHOOSE out \in {divideSteps(mid.r, mid.q, D, n - (n \div 2)) :
                            mid \in {divideSteps(R, Q, D, n \div 2)}} : TRUE

\* the Number of an integer 0 <= k < 2^31
fromInt(k) == roundToDouble(natFromInt(k), 0, FALSE)

\* a * b
times(a, b) ==
    IF isZero(a) \/ isZero(b) THEN Zero
    ELSE roundToDouble(natMul(a.m, b.m), a.e + b.e, FALSE)

\* a / b for b # 0: Precision + 2 quotient bits after the leading one, and
\* whether the division left a remainder
roundedQuotient(qr, e) == roundToDouble(qr.q, e, ~natIsZero(qr.r))
dividedFrom(a, b, lead) ==
    roundedQuotient(divideSteps(IF lead = 1 THEN natSub(a.m, b.m) ELSE a.m, <<lead>>,
                                b.m, Precision + 2),
                    a.e - b.e - (Precision + 2))
dividedBy(a, b) ==
    IF isZero(a) THEN Zero ELSE dividedFrom(a, b, IF natGeq(a.m, b.m) THEN 1 ELSE 0)

\* Math.floor(a), as an integer (below 2^31)
floor(a) ==
    IF a.e >= 0 THEN natToInt(shiftLeft(a.m, a.e)) ELSE natToInt(shiftRight(a.m, -a.e))

\* the Number of the decimal literal digits / 10^places: both are integers a
\* double holds exactly, so their quotient rounds as the literal does
decimal(digits, places) == dividedBy(fromInt(digits), fromInt(10^places))

(***************************************************************************)
(* CoordinateEngine: dayWidth, dateToX, xToDate                            *)
(***************************************************************************)
TIME_SCALES == {"daily", "weekly", "monthly", "annual", "multiYear"}
DAY_WIDTHS ==
    [daily |-> decimal(24, 0), weekly |-> decimal(6, 0), monthly |-> decimal(2, 0),
     annual |-> decimal(5, 1), multiYear |-> decimal(15, 2)]
ZOOM_LEVELS == {decimal(5, 1), decimal(1, 0), decimal(2, 0), decimal(4, 0)}

\* DAY_WIDTHS[timeScale] || DAY_WIDTHS.monthly, times zoomLevel
baseWidth(timeScale) ==
    IF timeScale \in DOMAIN DAY_WIDTHS THEN DAY_WIDTHS[timeScale] ELSE DAY_WIDTHS.monthly
calculateDayWidth(config) == times(baseWidth(config.timeScale), config.zoomLevel)

\* daysBetween(viewStart, date) * dayWidth, for a date on or after viewStart
dateToX(z, config, date) ==
    times(fromInt(daysBetween(z, config.viewStart, date)), calculateDayWidth(config))

\* addDays(viewStart, Math.floor(x / dayWidth))
xToDate(z, config, x) ==
    addDays(z, config.viewStart, floor(dividedBy(x, calculateDayWidth(config))))

(***************************************************************************)
(* Numbers of either sign: a sign and a magnitude (a zero is not negative; *)
(* the sign of a zero is not kept)                                         *)
(***************************************************************************)
Signed(neg, abs) == [neg |-> neg /\ ~isZero(abs), abs |-> abs]
fromInteger(k) == Signed(k < 0, fromInt(IF k < 0 THEN -k ELSE k))
negated(a) == Signed(~a.neg, a.abs)

\* a >= b for magnitudes (significands are normalised to Precision bits)
atLeast(a, b) ==
    \/ isZero(b)
    \/ ~isZero(a) /\ (a.e > b.e \/ (a.e = b.e /\ natGeq(a.m, b.m)))

\* a + b and a - b for magnitudes a >= b > 0: the exact result, rounded once
addMagnitudes(a, b) ==
    IF isZero(b) THEN a
    ELSE roundToDouble(natAdd(shiftLeft(a.m, a.e - b.e), b.m), b.e, FALSE)
subtractMagnitudes(a, b) ==
    IF isZero(b) THEN a
    ELSE roundToDouble(natSub(shiftLeft(a.m, a.e - b.e), b.m), b.e, FALSE)

\* a * b, a + b, a - b, a < b and Math.max(a, b)
product(a, b) == Signed(a.neg # b.neg, times(a.abs, b.abs))
sum(a, b) ==
    IF a.neg = b.neg
    THEN Signed(a.neg, IF atLeast(a.abs, b.abs) THEN addMagnitudes(a.abs, b.abs)
                       ELSE addMagnitudes(b.abs, a.abs))
    ELSE IF atLeast(a.abs, b.abs) THEN Signed(a.neg, subtractMagnitudes(a.abs, b.abs))
    ELSE Signed(b.neg, subtractMagnitudes(b.abs, a.abs))
difference(a, b) == sum(a, negated(b))
lessThan(a, b) ==
    IF a.neg # b.neg THEN a.neg
    ELSE IF a.neg THEN ~atLeast(b.abs, a.abs)
    ELSE ~atLeast(a.abs, b.abs)
maximum(a, b) == IF lessThan(a, b) THEN b ELSE a

(***************************************************************************)
(* CoordinateEngine: getBarBounds                                          *)
(***************************************************************************)
MIN_BAR_WIDTH == 30

\* dateToX for a date on either side of viewStart
dateToXOf(z, config, date) ==
    product(fromInteger(daysBetween(z, config.viewStart, date)),
            Signed(FALSE, calculateDayWidth(config)))

barWidth(startX, endX, dayWidth) ==
    maximum(sum(difference(endX, startX), dayWidth), fromInteger(MIN_BAR_WIDTH))
getBarBoundsOfSpan(z, config, startDate, endDate) ==
    [x |-> dateToXOf(z, config, startDate),
     width |-> maximum(difference(dateToXOf(z, config, endDate),
                                  dateToXOf(z, config, startDate)),
                       fromInteger(MIN_BAR_WIDTH))]
getBarBounds(z, config, startDate, endDate) ==
    [x |-> dateToXOf(z, config, startDate),
     width |-> barWidth(dateToXOf(z, config, startDate), dateToXOf(z, config, endDate),
                        Signed(FALSE, calculateDayWidth(config)))]

(***************************************************************************)
(* RoadmapVisual: data                                                     *)
(***************************************************************************)
NoId == ""          \* null parentId / predecessorId / a row without a work item
Null == <<>>        \* a null Date; a Date with time value t is <<t>>
NoItem == [id |-> NoId, workItemId |-> 0, type |-> "", parentId |-> NoId, areaPath |-> <<>>,
           startDate |-> Null, targetDate |-> Null, predecessorId |-> NoId]

\* type.charAt(0) for the work item types of the data source
CharAt0(type) ==
    CASE type = "Epic" -> "E"
      [] type = "Milestone" -> "M"
      [] type = "Feature" -> "F"
      [] type = "Task" -> "T"
      [] OTHER -> ""

\* Date.prototype.setHours(0, 0, 0, 0): local midnight of the local day
setHoursZero(z, t) ==
    LET lt == LocalTime(z, t)
    IN  UTC(z, MakeDay(YearFromTime(lt), MonthFromTime(lt), DateFromTime(lt)) * TicksPerDay)

\* ---- the values handed to parseDate: string | number | Date | null | undefined.
\* A time value is NaN or a number of minutes since the epoch.
NaN == [nan |-> TRUE, t |-> 0]
TimeValue(t) == [nan |-> FALSE, t |-> t]
JsNull == [kind |-> "null"]
JsUndefined == [kind |-> "undefined"]
JsString(text) == [kind |-> "string", text |-> text]
JsNumber(n) == [kind |-> "number", n |-> n]
JsDate(tv) == [kind |-> "Date", tv |-> tv]

\* ToBoolean(value): null, undefined, "", 0 and NaN are falsy; an object is truthy
ToBoolean(value) ==
    CASE value.kind = "null" -> FALSE
      [] value.kind = "undefined" -> FALSE
      [] value.kind = "string" -> value.text # ""
      [] value.kind = "number" -> ~value.n.nan /\ value.n.t # 0
      [] value.kind = "Date" -> TRUE

\* Date.parse of the strings of the model: a date-only form is UTC, a
\* date-time form without offset is local time, anything else is NaN
DateParse(z, text) ==
    CASE text = "2025-06-15" -> TimeValue(UtcTime(2025, 5, 15, 0, 0))
      [] text = "2025-06-15T14:30:00.000Z" -> TimeValue(UtcTime(2025, 5, 15, 14, 30))
      [] text = "2025-01-01T03:00:00.000Z" -> TimeValue(UtcTime(2025, 0, 1, 3, 0))
      [] text = "2025-06-15T23:30:00" -> TimeValue(NewDate(z, 2025, 5, 15, 23, 30))
      [] text = "2025-03-09T12:00:00" -> TimeValue(NewDate(z, 2025, 2, 9, 12, 0))
      [] OTHER -> NaN

\* the time value of new Date(value)
newDateOf(z, value) ==
    CASE value.kind = "string" -> DateParse(z, value.text)
      [] value.kind = "number" -> value.n
      [] value.kind = "Date" -> value.tv
      [] OTHER -> NaN

\* date.setHours(0, 0, 0, 0) of a Date with time value tv
setHours0000(z, tv) == IF tv.nan THEN NaN ELSE TimeValue(setHoursZero(z, tv.t))

\* isNaN(date.getTime()) ? null : date
nullIfInvalid(tv) == IF tv.nan THEN Null ELSE <<tv.t>>

\* DateService.parseDate
parseDate(z, value) ==
    IF ~ToBoolean(value) THEN Null ELSE nullIfInvalid(setHours0000(z, newDateOf(z, value)))

\* a column value of the data view: null or a Date object
columnValue(v) == IF v = Null THEN JsNull ELSE JsDate(TimeValue(v[1]))

\* parseData, one table row: id = `${type.charAt(0)}-${workItemId}`,
\* type defaults to "Feature", parentId = `E-${parentVal}` or null,
\* predecessorId = String(predecessorVal) or null
parseRow(z, raw) ==
    LET type == IF raw.type = "" THEN "Feature" ELSE raw.type
    IN  [id |-> CharAt0(type) \o "-" \o ToString(raw.workItemId),
         workItemId |-> raw.workItemId,
         type |-> type,
         parentId |-> IF raw.parent = 0 THEN NoId ELSE "E-" \o ToString(raw.parent),
         areaPath |-> raw.areaPath,
         startDate |-> parseDate(z, columnValue(raw.startDate)),
         targetDate |-> parseDate(z, columnValue(raw.targetDate)),
         predecessorId |-> raw.predecessor]

parseData(z, table) == AsSeq([i \in 1..Len(table) |-> parseRow(z, table[i])])

\* the settings of the constructor
DefaultSettings ==
    [rowDensity |-> "normal", groupBy |-> "epic", showHierarchy |-> TRUE,
     showEpics |-> TRUE, showFeatures |-> TRUE, showMilestones |-> TRUE,
     showDependencies |-> FALSE, showParentChild |-> TRUE, showPredecessors |-> TRUE,
     timeScale |-> "monthly", zoomLevel |-> decimal(1, 0),
     pdfMode |-> FALSE]

\* objects.display.viewScale || "monthly" and its like: a property that is
\* absent (the empty text, the number 0) reads as the default
orDefault(value, absent, default) == IF value = absent THEN default ELSE value

\* dataView.metadata.objects: "none" (no objects), or one property group.
\* A group that is absent leaves its settings as they were.  A zoomLevel is
\* a Number: parseFloat(String(zoom)) is the Number itself.
parseDisplay(s, display) ==
    LET scale == orDefault(display.viewScale, "", "monthly")
        density == orDefault(display.rowDensity, "", "normal")
        zoom == orDefault(display.zoomLevel, Zero, decimal(1, 0))
    IN  [s EXCEPT !.timeScale = IF scale \in TIME_SCALES THEN scale ELSE @,
                  !.rowDensity = IF density \in ROW_DENSITIES THEN density ELSE @,
                  !.zoomLevel = IF zoom \in ZOOM_LEVELS THEN zoom ELSE @]

parseSettings(s, objects) ==
    CASE objects.group = "none" -> s
      [] objects.group = "display" -> parseDisplay(s, objects)
      [] objects.group = "organization" ->
            [s EXCEPT !.groupBy = objects.groupBy, !.showHierarchy = objects.showHierarchy]
      [] objects.group = "levels" ->
            [s EXCEPT !.showEpics = objects.showEpics,
                      !.showFeatures = objects.showFeatures,
                      !.showMilestones = objects.showMilestones]
      [] objects.group = "dependencies" ->
            [s EXCEPT !.showDependencies = objects.show,
                      !.showParentChild = objects.showParentChild,
                      !.showPredecessors = objects.showPredecessors]
      [] objects.group = "export" ->
            [s EXCEPT !.pdfMode = objects.pdfMode]

(***************************************************************************)
(* RoadmapVisual.buildRows                                                 *)
(***************************************************************************)
getRowHeight(s, type) ==
    LET heights == IF s.rowDensity \in DOMAIN ROW_HEIGHTS
                   THEN ROW_HEIGHTS[s.rowDensity] ELSE ROW_HEIGHTS.normal
    IN  IF type \in DOMAIN heights THEN heights[type] ELSE heights.Feature

\* a RowData; undefined collapsed/isParent are FALSE, undefined childCount is 0
Row(type, data, name, h, isCollapsed, isParent, childCount, level) ==
    [type |-> type, data |-> data, name |-> name, y |-> 0, height |-> h,
     collapsed |-> isCollapsed, isParent |-> isParent, childCount |-> childCount,
     level |-> level]

\* let y = 0; ... rows.push({..., y, height: h, ...}); y += h;
\* what a pushed row adds to the running y
yAdvanceFixed(row) == 44

yAdvance(row) == row.height

\* the rows in push order, each with the running y at the time of its push
stackRows(rows) ==
    LET steps == AsSeq([i \in 1..Len(rows) |-> yAdvance(rows[i])])
    IN  AsSeq([i \in 1..Len(rows) |-> [rows[i] EXCEPT !.y = SumRange(steps, 1, i - 1)]])

\* items.forEach(item => rows.push({type: item.type, data: item, ..., level}));
\* the first operator is a variant that pushes the items without a parent only
itemRowsOrphansOnly(s, items, level) ==
    LET orphans == SelectSeq(items, LAMBDA w : w.parentId = NoId)
    IN  AsSeq([i \in 1..Len(orphans) |->
                  Row(orphans[i].type, orphans[i], "", getRowHeight(s, orphans[i].type),
                      FALSE, FALSE, 0, level)])

itemRows(s, items, level) ==
    AsSeq([i \in 1..Len(items) |->
              Row(items[i].type, items[i], "", getRowHeight(s, items[i].type),
                  FALSE, FALSE, 0, level)])

isVisibleItem(s, w) ==
    /\ ~(w.type = "Epic" /\ ~s.showEpics)
    /\ ~(w.type = "Feature" /\ ~s.showFeatures)
    /\ ~(w.type = "Milestone" /\ ~s.showMilestones)

\* children of an expanded Epic: the Milestones, then the Features
epicChildrenFeaturesFirst(children) ==
    SelectSeq(children, LAMBDA c : c.type = "Feature")
        \o SelectSeq(children, LAMBDA c : c.type = "Milestone")

epicChildren(children) ==
    SelectSeq(children, LAMBDA c : c.type = "Milestone")
        \o SelectSeq(children, LAMBDA c : c.type = "Feature")

\* epics.forEach body: the Epic's row, then (expanded and showHierarchy) its
\* children.  The first operator is a variant that counts the children of an
\* expanded Epic only.
epicBlockCountsShown(s, coll, epic, nonEpicItems) ==
    LET isCollapsed == epic.id \in coll /\ ~s.pdfMode
        children == SelectSeq(nonEpicItems, LAMBDA w : w.parentId = epic.id)
    IN  <<Row("Epic", epic, "", getRowHeight(s, "Epic"),
              isCollapsed, TRUE, IF isCollapsed THEN 0 ELSE Len(children), 0)>>
        \o (IF ~isCollapsed /\ s.showHierarchy
            THEN itemRows(s, epicChildren(children), 1)
            ELSE <<>>)

\* a variant that nests the children of an Epic that has a parent one level
\* deeper
epicBlockNested(s, coll, epic, nonEpicItems) ==
    LET isCollapsed == epic.id \in coll /\ ~s.pdfMode
        children == SelectSeq(nonEpicItems, LAMBDA w : w.parentId = epic.id)
    IN  <<Row("Epic", epic, "", getRowHeight(s, "Epic"),
              isCollapsed, TRUE, Len(children), 0)>>
        \o (IF ~isCollapsed /\ s.showHierarchy
            THEN itemRows(s, epicChildren(children), IF epic.parentId = NoId THEN 1 ELSE 2)
            ELSE <<>>)

epicBlock(s, coll, epic, nonEpicItems) ==
    LET isCollapsed == epic.id \in coll /\ ~s.pdfMode
        children == SelectSeq(nonEpicItems, LAMBDA w : w.parentId = epic.id)
    IN  <<Row("Epic", epic, "", getRowHeight(s, "Epic"),
              isCollapsed, TRUE, Len(children), 0)>>
        \o (IF ~isCollapsed /\ s.showHierarchy
            THEN itemRows(s, epicChildren(children), 1)
            ELSE <<>>)

\* the group names of the model in ascending localeCompare order
GroupNames == <<"Alpha", "Beta", "Unassigned">>
NameRank(n) == CHOOSE i \in 1..Len(GroupNames) : GroupNames[i] = n

\* getGroupKey: the selected field (areaPath for an unknown groupBy); an empty
\* value is "Unassigned"; of a path, the last segment
getGroupKey(s, item) ==
    LET value == item.areaPath
    IN  IF value = <<>> THEN "Unassigned" ELSE value[Len(value)]

\* the Map of groups in insertion order (the order in which the keys first
\* occur), as a sequence of [name, items]
groupItems(s, items) ==
    LET keys == AsSeq([i \in 1..Len(items) |-> getGroupKey(s, items[i])])
        first == SelectSeq(AsSeq([i \in 1..Len(items) |-> i]),
                           LAMBDA i : \A j \in 1..(i - 1) : keys[j] # keys[i])
    IN  AsSeq([g \in 1..Len(first) |->
                  [name |-> keys[first[g]],
                   items |-> SelectSeq(items,
                                LAMBDA w : getGroupKey(s, w) = keys[first[g]])]])

\* TYPES.indexOf(type); the first operator is a variant that ranks the types
\* alphabetically
TypeIndexAlphabetical(type) ==
    CASE type = "Epic" -> 0
      [] type = "Feature" -> 1
      [] type = "Milestone" -> 2
      [] OTHER -> -1

TypeIndex(type) ==
    IF \E i \in 1..Len(WORK_ITEM_TYPES) : WORK_ITEM_TYPES[i] = type
    THEN (CHOOSE i \in 1..Len(WORK_ITEM_TYPES) : WORK_ITEM_TYPES[i] = type) - 1
    ELSE -1

\* sortedGroups.forEach body: the header row, then (expanded and
\* showHierarchy) the members sorted by type
groupBlock(s, coll, g) ==
    LET isCollapsed == ("grp-" \o g.name) \in coll /\ ~s.pdfMode
        sorted == stableSortByKey(g.items,
                     AsSeq([i \in 1..Len(g.items) |-> TypeIndex(g.items[i].type)]))
    IN  <<Row("GroupHeader", NoItem, g.name, getRowHeight(s, "GroupHeader"),
              isCollapsed, TRUE, Len(g.items), 0)>>
        \o (IF ~isCollapsed /\ s.showHierarchy
            THEN itemRows(s, sorted, 1)
            ELSE <<>>)

\* a variant that emits, with Epics shown, the items without a visible parent
\* Epic as level-0 rows after the Epics
buildRowsKeepsOrphans(items, s, coll) ==
    LET visibleItems == SelectSeq(items, LAMBDA w : isVisibleItem(s, w))
    IN  IF s.groupBy = "epic"
        THEN LET epics == SelectSeq(visibleItems, LAMBDA w : w.type = "Epic")
                 nonEpicItems == SelectSeq(visibleItems, LAMBDA w : w.type # "Epic")
                 blocks == AsSeq([i \in 1..Len(epics) |->
                                     epicBlock(s, coll, epics[i], nonEpicItems)])
             IN  stackRows(Flatten(blocks, 1, Len(blocks))
                           \o (IF ~s.showEpics THEN itemRows(s, nonEpicItems, 0)
                               ELSE itemRows(s, SelectSeq(nonEpicItems,
                                       LAMBDA w : \A e \in 1..Len(epics) :
                                           epics[e].id # w.parentId), 0)))
        ELSE LET groups == groupItems(s, visibleItems)
                 sortedGroups == stableSortByKey(groups,
                                    AsSeq([i \in 1..Len(groups) |->
                                              NameRank(groups[i].name)]))
                 blocks == AsSeq([i \in 1..Len(sortedGroups) |->
                                     groupBlock(s, coll, sortedGroups[i])])
             IN  stackRows(Flatten(blocks, 1, Len(blocks)))

buildRows(items, s, coll) ==
    LET visibleItems == SelectSeq(items, LAMBDA w : isVisibleItem(s, w))
    IN  IF s.groupBy = "epic"
        THEN LET epics == SelectSeq(visibleItems, LAMBDA w : w.type = "Epic")
                 nonEpicItems == SelectSeq(visibleItems, LAMBDA w : w.type # "Epic")
                 blocks == AsSeq([i \in 1..Len(epics) |->
                                     epicBlock(s, coll, epics[i], nonEpicItems)])
             IN  stackRows(Flatten(blocks, 1, Len(blocks))
                           \o (IF ~s.showEpics THEN itemRows(s, nonEpicItems, 0)
                               ELSE <<>>))
        ELSE LET groups == groupItems(s, visibleItems)
                 sortedGroups == stableSortByKey(groups,
                                    AsSeq([i \in 1..Len(groups) |->
                                              NameRank(groups[i].name)]))
                 blocks == AsSeq([i \in 1..Len(sortedGroups) |->
                                     groupBlock(s, coll, sortedGroups[i])])
             IN  stackRows(Flatten(blocks, 1, Len(blocks)))

(***************************************************************************)
(* CoordinateEngine.calculateVisibleRows                                   *)
(* rows: sequence of [y, height]; the result is the RowBounds[] returned   *)
(* (index is the 0-based position) together with the caller's array after  *)
(* the call.  Row centres and the viewport centre are halves of integers;  *)
(* the distances are compared doubled, which is exact.                     *)
(***************************************************************************)
skipCullingBelowFloor(totalItems) == totalItems < MIN_VISIBLE_ITEMS

\* if (totalItems < OCCLUSION.ENABLE_THRESHOLD)
skipCulling(totalItems) == totalItems < ENABLE_THRESHOLD

overlapsViewportStrict(rowTop, rowBottom, visibleStart, visibleEnd) ==
    rowBottom > visibleStart /\ rowTop < visibleEnd

\* rowBottom >= visibleStart && rowTop <= visibleEnd
overlapsViewport(rowTop, rowBottom, visibleStart, visibleEnd) ==
    rowBottom >= visibleStart /\ rowTop <= visibleEnd

\* 2 * Math.abs((a.y + a.height / 2) - viewportCenter)
topDistance2(r, scrollTop, viewportHeight) ==
    Abs((2 * r.y) - (2 * scrollTop + viewportHeight))

centreDistance2(r, scrollTop, viewportHeight) ==
    Abs((2 * r.y + r.height) - (2 * scrollTop + viewportHeight))

fallbackCountShortfall(visibleCount, n) == Min(MIN_VISIBLE_ITEMS - visibleCount, n)

\* for (i = 0; i < OCCLUSION.MIN_VISIBLE_ITEMS && i < sortedByDistance.length; i++)
fallbackCount(visibleCount, n) == Min(MIN_VISIBLE_ITEMS, n)

\* the positions of result in the order of [...result].sort(by distance)
sortedByDistance(result, scrollTop, viewportHeight) ==
    stableSortByKey(AsSeq([i \in 1..Len(result) |-> i]),
                    AsSeq([i \in 1..Len(result) |->
                              centreDistance2(result[i], scrollTop, viewportHeight)]))

cullRows(rows, scrollTop, viewportHeight, totalItems) ==
    IF skipCulling(totalItems)
    THEN AsSeq([i \in 1..Len(rows) |->
            [index |-> i - 1, y |-> rows[i].y, height |-> rows[i].height, isVisible |-> TRUE]])
    ELSE LET visibleStart == scrollTop - BUFFER_PX
             visibleEnd == scrollTop + viewportHeight + BUFFER_PX
             result == AsSeq([i \in 1..Len(rows) |->
                          [index |-> i - 1, y |-> rows[i].y, height |-> rows[i].height,
                           isVisible |-> overlapsViewport(rows[i].y, rows[i].y + rows[i].height,
                                                          visibleStart, visibleEnd)]])
             visibleCount == Cardinality({i \in 1..Len(rows) : result[i].isVisible})
         IN  IF visibleCount < MIN_VISIBLE_ITEMS /\ Len(rows) >= MIN_VISIBLE_ITEMS
             THEN LET sorted == sortedByDistance(result, scrollTop, viewportHeight)
                      marked == {sorted[k] : k \in 1..fallbackCount(visibleCount, Len(sorted))}
                  IN  AsSeq([i \in 1..Len(rows) |->
                          IF i \in marked THEN [result[i] EXCEPT !.isVisible = TRUE]
                          ELSE result[i]])
             ELSE result

\* a variant that sorts the caller's array instead of a copy of the result
calculateVisibleRowsSortsInput(rows, scrollTop, viewportHeight, totalItems) ==
    [rows |-> stableSortByKey(rows,
                 AsSeq([i \in 1..Len(rows) |->
                           centreDistance2(rows[i], scrollTop, viewportHeight)])),
     result |-> cullRows(rows, scrollTop, viewportHeight, totalItems)]

\* rows.map builds new objects and [...result] is a copy: no write reaches rows
calculateVisibleRows(rows, scrollTop, viewportHeight, totalItems) ==
    [rows |-> rows,
     result |-> cullRows(rows, scrollTop, viewportHeight, totalItems)]

(***************************************************************************)
(* RoadmapVisual.update / render / toggleCollapse / scroll handlers        *)
(***************************************************************************)
\* render: the positions (1-based) of the rows that are rendered
visibleRowBounds(rows, s, scrollTop, height) ==
    LET shouldCull == Len(rows) >= ENABLE_THRESHOLD /\ ~s.pdfMode
    IN  IF shouldCull
        THEN calculateVisibleRows(AsSeq([i \in 1..Len(rows) |->
                                            [y |-> rows[i].y, height |-> rows[i].height]]),
                                  scrollTop, height - 100, Len(rows)).result
        ELSE AsSeq([i \in 1..Len(rows) |->
                [index |-> i - 1, y |-> rows[i].y, height |-> rows[i].height,
                 isVisible |-> TRUE]])

\* TIMELINE_PADDING: days before the first and after the last date, and the
\* span shown when no item has a date
TIMELINE_PADDING == [BEFORE |-> 14, AFTER |-> 28, DEFAULT_SPAN |-> 90]

\* update, "Calculate timeline bounds": the time values of the start and
\* target dates that are not null, and [viewStart, viewEnd]
itemDates(items) ==
    {items[i].startDate[1] : i \in {j \in 1..Len(items) : items[j].startDate # Null}}
    \cup {items[i].targetDate[1] : i \in {j \in 1..Len(items) : items[j].targetDate # Null}}
MinOf(S) == CHOOSE m \in S : \A q \in S : m <= q
MaxOf(S) == CHOOSE m \in S : \A q \in S : q <= m
timelineBounds(z, items, now) ==
    LET dates == itemDates(items)
        minDate == IF dates # {} THEN MinOf(dates) ELSE now
        maxDate == IF dates # {} THEN MaxOf(dates)
                   ELSE addDays(z, now, TIMELINE_PADDING.DEFAULT_SPAN)
    IN  [viewStart |-> addDays(z, minDate, -TIMELINE_PADDING.BEFORE),
         viewEnd |-> addDays(z, maxDate, TIMELINE_PADDING.AFTER)]

\* ---- renderDependencyLines ----
\* rowIndex.get(id) and workItemIdIndex.get(n): the position of the row a key
\* maps to (a later row replaces an earlier one with the same key), 0 when
\* the key is absent.  The first operator is a variant that maps an absent
\* key to the first row.
rowIndexGetOrFirst(rows, id) ==
    LET hits == {i \in 1..Len(rows) : rows[i].data # NoItem /\ rows[i].data.id = id}
    IN  IF hits = {} THEN 1 ELSE MaxOf(hits)
rowIndexGet(rows, id) ==
    LET hits == {i \in 1..Len(rows) : rows[i].data # NoItem /\ rows[i].data.id = id}
    IN  IF hits = {} THEN 0 ELSE MaxOf(hits)
workItemIdIndexGet(rows, n) ==
    LET hits == {i \in 1..Len(rows) : rows[i].data # NoItem /\ rows[i].data.workItemId = n}
    IN  IF hits = {} THEN 0 ELSE MaxOf(hits)

\* Number(text) for the predecessor ids of the model: the decimal numerals
\* 0..MaxWorkItemId convert to their value, any other text to NaN (-1 here,
\* which is no workItemId)
MaxWorkItemId == 200
Numerals == AsSeq([k \in 1..(MaxWorkItemId + 1) |-> ToString(k - 1)])
Number(text) ==
    LET values == {n \in 0..MaxWorkItemId : Numerals[n + 1] = text}
    IN  IF values = {} THEN -1 ELSE CHOOSE n \in values : TRUE

\* a || b for two lookups
orElse(a, b) == IF a # 0 THEN a ELSE b

\* a variant that tries the composite keys before the numeric id
predecessorRowKeysFirst(rows, predecessorId) ==
    orElse(rowIndexGet(rows, predecessorId),
    orElse(rowIndexGet(rows, "E-" \o predecessorId),
    orElse(rowIndexGet(rows, "F-" \o predecessorId),
    orElse(rowIndexGet(rows, "M-" \o predecessorId),
           workItemIdIndexGet(rows, Number(predecessorId))))))

\* workItemIdIndex.get(predId) || rowIndex.get(id) || rowIndex.get(`E-${id}`)
\* || rowIndex.get(`F-${id}`) || rowIndex.get(`M-${id}`)
predecessorRow(rows, predecessorId) ==
    orElse(workItemIdIndexGet(rows, Number(predecessorId)),
    orElse(rowIndexGet(rows, predecessorId),
    orElse(rowIndexGet(rows, "E-" \o predecessorId),
    orElse(rowIndexGet(rows, "F-" \o predecessorId),
           rowIndexGet(rows, "M-" \o predecessorId)))))

\* the x of a connector end, in days from viewStart: x = days * dayWidth with
\* dayWidth > 0, so x > 0 exactly when days > 0
endDays(z, vs, item) ==
    IF item.targetDate # Null THEN daysBetween(z, vs, item.targetDate[1]) ELSE 0
startDays(z, vs, item) ==
    IF item.startDate # Null THEN daysBetween(z, vs, item.startDate[1])
    ELSE IF item.targetDate # Null THEN daysBetween(z, vs, item.targetDate[1]) ELSE 0

\* the connectors one row adds in a pass: kind, the positions of the source
\* row and of the row itself, and the days of the two ends
connectorOf(z, vs, rows, kind, from, to) ==
    IF from = 0 THEN <<>>
    ELSE LET x1 == endDays(z, vs, rows[from].data)
             x2 == startDays(z, vs, rows[to].data)
         IN  IF x1 > 0 /\ x2 > 0
             THEN <<[kind |-> kind, from |-> from, to |-> to, fromDays |-> x1, toDays |-> x2]>>
             ELSE <<>>
parentChildLine(z, vs, rows, i) ==
    IF rows[i].data = NoItem \/ rows[i].type = "GroupHeader" \/ rows[i].data.parentId = NoId
    THEN <<>>
    ELSE connectorOf(z, vs, rows, "parentChild", rowIndexGet(rows, rows[i].data.parentId), i)
predecessorLine(z, vs, rows, i) ==
    IF rows[i].data = NoItem \/ rows[i].type = "GroupHeader" \/ rows[i].data.predecessorId = NoId
    THEN <<>>
    ELSE connectorOf(z, vs, rows, "predecessor",
                     predecessorRow(rows, rows[i].data.predecessorId), i)

\* the paths appended to the dependency layer, in order
renderDependencyLines(z, s, vs, rows) ==
    (IF s.showParentChild
     THEN Flatten(AsSeq([i \in 1..Len(rows) |-> parentChildLine(z, vs, rows, i)]), 1, Len(rows))
     ELSE <<>>)
    \o (IF s.showPredecessors
        THEN Flatten(AsSeq([i \in 1..Len(rows) |-> predecessorLine(z, vs, rows, i)]), 1, Len(rows))
        ELSE <<>>)

\* the eventService calls of an update(): renderingStarted first, then the
\* call of the path taken.  The first operator is a variant that also
\* signals renderingFinished when leaving the try statement.
signalsWithFinally(outcome) ==
    IF outcome = "renderingFailed"
    THEN <<"renderingStarted", outcome, "renderingFinished">>
    ELSE <<"renderingStarted", outcome>>

signals(outcome) == <<"renderingStarted", outcome>>

\* update(options): options.dataViews[0] present or not, its table, its
\* metadata.objects, options.viewport.height, the clock (new Date()), and
\* the exception of the cycle: "none", "parseData" (a category column of the
\* data view has no values array: parseData throws after it has emptied
\* workItems) or "render" (the first DOM call of render throws)
Update(present, table, objects, height, now, fault) ==
    /\ unit = "visual"
    /\ fault # "none" => present
    /\ fault = "render" => table # <<>>
    /\ hostTable' = table
    /\ IF ~present
       THEN \* "No data available"
            /\ rowPositions' = {}
            /\ domRows' = {}
            /\ connectors' = <<>>
            /\ view' = "noData"
            /\ events' = signals("renderingFinished")
            /\ UNCHANGED <<workItems, settings, collapsed, allRows, renderedRowIds,
                           currentScrollTop, viewStart, viewEnd>>
       ELSE IF fault = "parseData"
       THEN /\ workItems' = <<>>
            /\ rowPositions' = {}
            /\ domRows' = {}
            /\ connectors' = <<>>
            /\ view' = "blank"
            /\ events' = signals("renderingFailed")
            /\ UNCHANGED <<settings, collapsed, allRows, renderedRowIds,
                           currentScrollTop, viewStart, viewEnd>>
       ELSE /\ workItems' = parseData(zone, table)
            /\ settings' = parseSettings(settings, objects)
            /\ IF workItems' = <<>>
               THEN \* "Add data fields to display the roadmap"
                    /\ rowPositions' = {}
                    /\ domRows' = {}
                    /\ connectors' = <<>>
                    /\ view' = "noItems"
                    /\ events' = signals("renderingFinished")
                    /\ UNCHANGED <<collapsed, allRows, renderedRowIds, currentScrollTop,
                                   viewStart, viewEnd>>
               ELSE /\ \E tb \in {timelineBounds(zone, workItems', now)} :
                          viewStart' = tb.viewStart /\ viewEnd' = tb.viewEnd
                    \* render()
                    /\ collapsed' = IF settings'.pdfMode THEN {} ELSE collapsed
                    /\ IF fault = "render"
                       THEN /\ rowPositions' = {}
                            /\ domRows' = {}
                            /\ connectors' = <<>>
                            /\ view' = "blank"
                            /\ events' = signals("renderingFailed")
                            /\ UNCHANGED <<allRows, renderedRowIds>>
                       ELSE /\ allRows' = buildRows(workItems', settings', collapsed')
                            /\ \E bounds \in {visibleRowBounds(allRows', settings',
                                                               currentScrollTop, height)} :
                                  domRows' = {i \in 1..Len(allRows') : bounds[i].isVisible}
                            /\ renderedRowIds' =
                                  {allRows'[i].data.id :
                                      i \in {j \in domRows' : allRows'[j].data # NoItem}}
                            /\ rowPositions' = renderedRowIds'
                            /\ connectors' =
                                  IF settings'.showDependencies
                                  THEN renderDependencyLines(zone, settings', viewStart',
                                                             allRows')
                                  ELSE <<>>
                            /\ view' = "roadmap"
                            /\ events' = signals("renderingFinished")
                    /\ UNCHANGED currentScrollTop
    /\ UNCHANGED <<cullVars, dateVars, unit, calls, zone>>

\* ---- inputs of the model ----
MaxItems == 3          \* longest table of the row-layout inputs
Heights == {600}       \* options.viewport.height

RawRow(id, type, parent, areaPath) ==
    [workItemId |-> id, type |-> type, parent |-> parent, areaPath |-> areaPath,
     startDate |-> Null, targetDate |-> Null, predecessor |-> NoId]

\* the table rows the row-layout inputs are made of
RawPool ==
    { RawRow(1, "Epic", 0, <<"Proj", "Beta">>),
      RawRow(2, "Epic", 1, <<>>),
      RawRow(3, "Feature", 1, <<"Alpha">>),
      RawRow(4, "Milestone", 1, <<"Proj", "Beta">>),
      RawRow(5, "", 1, <<>>),
      RawRow(6, "Milestone", 2, <<"Alpha">>),
      RawRow(7, "Task", 1, <<"Alpha">>) }

RECURSIVE TablesOfLen(_)
TablesOfLen(n) ==
    IF n = 0 THEN {<<>>}
    ELSE {Append(t, r) : t \in TablesOfLen(n - 1), r \in RawPool}

\* tables of distinct pool rows, up to MaxItems rows
SmallTables ==
    {t \in UNION {TablesOfLen(n) : n \in 0..MaxItems} :
        \A i, j \in 1..Len(t) : i # j => t[i] # t[j]}

\* the tables of the update-cycle behaviours
CycleTables ==
    { <<>>,
      <<RawRow(3, "Feature", 1, <<"Alpha">>), RawRow(1, "Epic", 0, <<"Proj", "Beta">>),
        RawRow(4, "Milestone", 1, <<"Proj", "Beta">>)>> }

NoObjects == [group |-> "none"]
LayoutObjects ==
    {NoObjects}
    \cup {[group |-> "display", viewScale |-> "", rowDensity |-> d, zoomLevel |-> Zero] :
            d \in {"cosy"}}
    \cup {[group |-> "organization", groupBy |-> g, showHierarchy |-> h] :
            g \in {"epic", "areaPath"}, h \in BOOLEAN}
    \cup {[group |-> "levels", showEpics |-> e, showFeatures |-> f, showMilestones |-> TRUE] :
            e \in BOOLEAN, f \in {TRUE}}
    \cup {[group |-> "export", pdfMode |-> b] : b \in BOOLEAN}

\* ---- actions ----
\* the fields of a visual that has not been updated
NewVisual ==
    /\ hostTable = <<>>
    /\ workItems = <<>>
    /\ settings = DefaultSettings
    /\ collapsed = {}
    /\ allRows = <<>>
    /\ renderedRowIds = {}
    /\ rowPositions = {}
    /\ domRows = {}
    /\ currentScrollTop = 0
    /\ view = "blank"
    /\ connectors = <<>>
    /\ events = <<>>

\* the visual of a behaviour that exercises another unit
IdleVisual == NewVisual /\ zone = "UTC" /\ viewStart = 0 /\ viewEnd = 0

\* the process's time zones and the clock readings of the update cycles:
\* new Date() at construction and in update()
VisualZones == {"Australia/Sydney"}
Clock == {NewDate("Australia/Sydney", 2025, 5, 15, 8, 30)}
IdleCull == cullArgs = <<>> /\ cullOut = <<>>
IdleDate == dateArgs = <<>> /\ dateOut = <<>> /\ engine = <<>>

\* the visual after its constructor
InitVisualIn(Zones, Times) ==
    /\ unit = "visual" /\ NewVisual /\ calls = 0
    /\ zone \in Zones
    /\ \E now \in Times : viewStart = now /\ viewEnd = now
InitVisual == InitVisualIn(VisualZones, Clock)

\* the host's data changes and it calls update()
DataRefreshOf(Tables) ==
    \E t \in Tables, h \in Heights, now \in Clock : Update(TRUE, t, NoObjects, h, now, "none")

\* a format-pane property group changes (or the host refreshes) and the host
\* calls update() with the same data
FormatChangeOf(Objects) ==
    \E o \in Objects, h \in Heights, now \in Clock : Update(TRUE, hostTable, o, h, now, "none")

\* update() in which parseData or render throws
FailedUpdateOf(Tables) ==
    \E t \in Tables, h \in Heights, now \in Clock, fault \in {"parseData", "render"} :
        Update(TRUE, t, NoObjects, h, now, fault)

\* update() without a data view
NoDataView == \E h \in Heights, now \in Clock : Update(FALSE, hostTable, NoObjects, h, now, "none")

\* the key the click handler of a rendered parent row passes to toggleCollapse
toggleKey(row) == IF row.type = "GroupHeader" THEN "grp-" \o row.name ELSE row.data.id

toggleCollapse(key) ==
    /\ collapsed' = IF key \in collapsed THEN collapsed \ {key} ELSE collapsed \cup {key}
    /\ UNCHANGED <<hostTable, workItems, settings, allRows, renderedRowIds, rowPositions,
                   domRows, currentScrollTop, view, zone, viewStart, viewEnd, connectors,
                   events>>

\* click (or Enter/Space) on a rendered parent row
ToggleCollapse ==
    /\ unit = "visual"
    /\ \E i \in domRows : allRows[i].isParent /\ toggleCollapse(toggleKey(allRows[i]))
    /\ UNCHANGED <<cullVars, dateVars, unit, calls>>

\* total height of the rows: the scrollable extent
totalHeight(rows) ==
    IF rows = <<>> THEN 0 ELSE rows[Len(rows)].y + rows[Len(rows)].height

\* render attaches the scroll listeners unless pdfMode is on
scrollHooked == view = "roadmap" /\ ~settings.pdfMode

\* a variant of the scroll handlers that also renders the rows of the new
\* viewport
ScrollOfRendersViewport(Tops) ==
    /\ unit = "visual"
    /\ scrollHooked
    /\ \E st \in Tops, h \in Heights :
          /\ st <= totalHeight(allRows) /\ currentScrollTop' = st
          /\ \E bounds \in {visibleRowBounds(allRows, settings, st, h)} :
                domRows' = {i \in 1..Len(allRows) : bounds[i].isVisible}
          /\ renderedRowIds' =
                {allRows[i].data.id : i \in {j \in domRows' : allRows[j].data # NoItem}}
          /\ rowPositions' = renderedRowIds'
    /\ UNCHANGED <<hostTable, workItems, settings, collapsed, allRows, view, zone,
                   viewStart, viewEnd, connectors, events>>
    /\ UNCHANGED <<cullVars, dateVars, unit, calls>>

\* scroll event of the left body or the timeline body: updateScrollPosition
ScrollOf(Tops) ==
    /\ unit = "visual"
    /\ scrollHooked
    /\ \E st \in Tops : st <= totalHeight(allRows) /\ currentScrollTop' = st
    /\ UNCHANGED <<hostTable, workItems, settings, collapsed, allRows, renderedRowIds,
                   rowPositions, domRows, view, zone, viewStart, viewEnd, connectors,
                   events>>
    /\ UNCHANGED <<cullVars, dateVars, unit, calls>>

DataRefresh == DataRefreshOf(CycleTables)
FormatChange == FormatChangeOf(LayoutObjects)
Scroll == ScrollOf({0, 100})

Init == InitVisual /\ IdleCull /\ IdleDate
Next == DataRefresh \/ FormatChange \/ NoDataView \/ ToggleCollapse \/ Scroll
Spec == Init /\ [][Next]_vars

(***************************************************************************)
(* buildRows as a function of (workItems, settings, collapsed)             *)
(***************************************************************************)
LayoutSettings ==
    {[rowDensity |-> d, groupBy |-> g, showHierarchy |-> h, showEpics |-> e,
      showFeatures |-> f, showMilestones |-> m, pdfMode |-> p] :
        d \in {"compact", "comfortable"}, g \in {"epic", "areaPath"}, h \in BOOLEAN,
        e \in BOOLEAN, f \in BOOLEAN, m \in BOOLEAN, p \in BOOLEAN}
CollapsedSets == {{}, {"E-1", "grp-Alpha"}}

InitRows ==
    /\ unit = "rows"
    /\ zone = "UTC" /\ viewStart = 0 /\ viewEnd = 0
    /\ connectors = <<>> /\ events = <<>>
    /\ \E t \in SmallTables : hostTable = t /\ workItems = parseData(zone, t)
    /\ settings \in LayoutSettings
    /\ collapsed \in CollapsedSets
    /\ allRows = <<>> /\ renderedRowIds = {} /\ rowPositions = {} /\ domRows = {}
    /\ currentScrollTop = 0 /\ view = "blank"
    /\ calls = 0
    /\ IdleCull /\ IdleDate

BuildRows ==
    /\ unit = "rows"
    /\ calls = 0
    /\ allRows' = buildRows(workItems, settings, collapsed)
    /\ calls' = 1
    /\ UNCHANGED <<hostTable, workItems, settings, collapsed, renderedRowIds, rowPositions,
                   domRows, currentScrollTop, view, zone, viewStart, viewEnd, connectors,
                   events, cullVars, dateVars, unit>>

NextRows == BuildRows
SpecRows == InitRows /\ [][NextRows]_vars

(***************************************************************************)
(* Row layout: claims                                                      *)
(***************************************************************************)
RowsContiguous(rows) ==
    /\ rows # <<>> => rows[1].y = 0
    /\ \A i \in 1..(Len(rows) - 1) : rows[i].y + rows[i].height = rows[i + 1].y

\* C1: the row list produced by buildRows is a contiguous stack: the first
\* row has y = 0 and every row starts where the previous one ends, for every
\* work-item collection, type-visibility flags, grouping mode, collapsed set,
\* showHierarchy/pdfMode value and row density.
C1_RowContiguity == calls = 1 => RowsContiguous(allRows)

\* C1 witness: a grouped, partly collapsed layout with rows of several heights
C1_Witness ==
    /\ unit = "rows" /\ calls = 1
    /\ settings.groupBy # "epic" /\ settings.rowDensity = "comfortable"
    /\ Len(allRows) >= 4
    /\ \E i \in 1..Len(allRows) : allRows[i].collapsed
    /\ \E i, j \in 1..Len(allRows) : allRows[i].height # allRows[j].height

\* the rows after position i up to (not including) the next Epic row
RECURSIVE rowsUntilNextEpic(_, _)
rowsUntilNextEpic(rows, i) ==
    IF i > Len(rows) \/ rows[i].type = "Epic" THEN <<>>
    ELSE <<rows[i].data>> \o rowsUntilNextEpic(rows, i + 1)

\* the direct children of an Epic that pass the type-visibility filter:
\* the Milestones in input order, then the Features in input order
expectedChildren(items, s, epicId) ==
    SelectSeq(items, LAMBDA w : w.type = "Milestone" /\ s.showMilestones
                                    /\ w.parentId = epicId)
    \o SelectSeq(items, LAMBDA w : w.type = "Feature" /\ s.showFeatures
                                    /\ w.parentId = epicId)

ChildrenFollowEpic(i) ==
    rowsUntilNextEpic(allRows, i + 1)
        = expectedChildren(workItems, settings, allRows[i].data.id)

\* C2 as stated: in hierarchy mode the rows below every Epic that is emitted
\* expanded are exactly its direct children, Milestones first, then Features.
C2_Original ==
    (calls = 1 /\ settings.groupBy = "epic") =>
        \A i \in 1..Len(allRows) :
            (allRows[i].type = "Epic" /\ ~allRows[i].collapsed) => ChildrenFollowEpic(i)

\* C2 amended: in hierarchy mode with showHierarchy on, the rows below every
\* Epic that is emitted expanded are exactly its direct children (of the
\* visible types), all Milestones in input order, then all Features in input
\* order; with showHierarchy off an Epic has no child rows.
C2_ChildrenOrder ==
    (calls = 1 /\ settings.groupBy = "epic") =>
        \A i \in 1..Len(allRows) :
            allRows[i].type = "Epic" =>
                IF ~allRows[i].collapsed /\ settings.showHierarchy
                THEN ChildrenFollowEpic(i)
                ELSE rowsUntilNextEpic(allRows, i + 1) = <<>>

\* C2 witness: Epic 1 with Feature 3 and Milestone 4 (in that input order)
\* yields exactly [E-1, M-4, F-3]
C2_Witness ==
    /\ unit = "rows" /\ calls = 1
    /\ settings.groupBy = "epic" /\ settings.showHierarchy
    /\ [i \in 1..Len(workItems) |-> workItems[i].id] = <<"E-1", "F-3", "M-4">>
    /\ [i \in 1..Len(allRows) |-> allRows[i].data.id] = <<"E-1", "M-4", "F-3">>
    /\ ~allRows[1].collapsed

\* C4 as stated: an update cycle with pdfMode on leaves the collapsed set as
\* it was.
C4_PdfModeKeepsCollapsed ==
    [][((DataRefresh \/ FormatChange) /\ settings'.pdfMode) => collapsed' = collapsed]_vars

(***************************************************************************)
(* calculateVisibleRows as a function: the caller holds the arguments and  *)
(* calls twice                                                             *)
(***************************************************************************)
MaxRows == 26    \* longest row list handed to calculateVisibleRows

\* a contiguous stack of n rows whose heights cycle through the pattern
stackOf(pattern, n) ==
    LET hs == AsSeq([k \in 1..n |-> pattern[((k - 1) % Len(pattern)) + 1]])
    IN  AsSeq([i \in 1..n |-> [y |-> SumRange(hs, 1, i - 1), height |-> hs[i]]])

\* MaxRows - 1 short rows above one very tall row
ShortThenTall == AsSeq([k \in 1..MaxRows |-> IF k = MaxRows THEN 100000 ELSE 10])
HeightPatterns == {<<44>>, <<48, 40, 44>>, <<5000, 28>>, ShortThenTall}
RowCounts == {0, 1, MIN_VISIBLE_ITEMS - 1, MIN_VISIBLE_ITEMS, MaxRows}
CullScrollTops == {0, 180, 244, 550, 100000}
CullViewportHeights == {0, 500}
CullTotalItems == {0, ENABLE_THRESHOLD - 1, ENABLE_THRESHOLD, 5000}

InitCull ==
    /\ unit = "cull"
    /\ \E p \in HeightPatterns, n \in RowCounts, st \in CullScrollTops,
          vh \in CullViewportHeights, ti \in CullTotalItems :
            cullArgs = [rows |-> stackOf(p, n), scrollTop |-> st,
                        viewportHeight |-> vh, totalItems |-> ti]
    /\ cullOut = <<>>
    /\ calls = 0
    /\ IdleVisual /\ IdleDate

CalculateVisibleRows ==
    /\ unit = "cull"
    /\ calls < 2
    /\ LET r == calculateVisibleRows(cullArgs.rows, cullArgs.scrollTop,
                                     cullArgs.viewportHeight, cullArgs.totalItems)
       IN  /\ cullArgs' = [cullArgs EXCEPT !.rows = r.rows]
           /\ cullOut' = Append(cullOut, r.result)
    /\ calls' = calls + 1
    /\ UNCHANGED <<visualVars, dateVars, unit>>

NextCull == CalculateVisibleRows
SpecCull == InitCull /\ [][NextCull]_vars

(***************************************************************************)
(* update cycles over tables around the culling threshold                  *)
(***************************************************************************)
\* Epic 1 followed by n - 1 Features of Epic 1: n rows when expanded
bulkTable(n) ==
    AsSeq([i \in 1..n |->
        IF i = 1 THEN RawRow(1, "Epic", 0, <<"Alpha">>)
        ELSE RawRow(100 + i, "Feature", 1, <<"Alpha">>)])

BulkTables == {bulkTable(ENABLE_THRESHOLD - 1), bulkTable(ENABLE_THRESHOLD)}
BulkObjects ==
    {NoObjects}
    \cup {[group |-> "organization", groupBy |-> g, showHierarchy |-> TRUE] :
            g \in {"epic", "areaPath"}}
    \cup {[group |-> "export", pdfMode |-> b] : b \in BOOLEAN}

BulkDataRefresh == DataRefreshOf(BulkTables)
BulkFormatChange == FormatChangeOf(BulkObjects)
BulkScroll == ScrollOf({0, 3000})

NextBulk == BulkDataRefresh \/ BulkFormatChange \/ NoDataView \/ ToggleCollapse \/ BulkScroll
SpecBulk == Init /\ [][NextBulk]_vars

\* the culler called directly, and the culler as render uses it
InitCullAndBulk == InitCull \/ Init
NextCullAndBulk == NextCull \/ NextBulk
SpecCullAndBulk == InitCullAndBulk /\ [][NextCullAndBulk]_vars

(***************************************************************************)
(* Viewport culling: claims                                                *)
(***************************************************************************)
lastOut == cullOut[Len(cullOut)]
visibleIn(out) == {i \in 1..Len(out) : out[i].isVisible}

\* the closed interval [y, y + height] meets the buffered viewport
\* [scrollTop - 200, scrollTop + viewportHeight + 200]
meetsWindow(r, a) ==
    Max(r.y, a.scrollTop - BUFFER_PX)
        <= Min(r.y + r.height, a.scrollTop + a.viewportHeight + BUFFER_PX)
rowsInWindow(a) == {i \in 1..Len(a.rows) : meetsWindow(a.rows[i], a)}

\* C3: at or above the culling threshold, a row list of at least 20 rows gets
\* at least 20 rows marked visible, wherever the viewport is.
C3_OcclusionFloor ==
    (unit = "cull" /\ calls >= 1 /\ cullArgs.totalItems >= ENABLE_THRESHOLD
        /\ Len(cullArgs.rows) >= MIN_VISIBLE_ITEMS)
    => Cardinality(visibleIn(lastOut)) >= MIN_VISIBLE_ITEMS

\* C3 witness: irregular rows, all far from the viewport, and the floor is met
C3_Witness ==
    /\ unit = "cull" /\ calls = 1
    /\ cullArgs.totalItems >= ENABLE_THRESHOLD
    /\ cullArgs.scrollTop = 100000
    /\ Len(cullArgs.rows) = MaxRows
    /\ cullArgs.rows[1].height = 5000
    /\ rowsInWindow(cullArgs) = {}
    /\ Cardinality(visibleIn(lastOut)) = MIN_VISIBLE_ITEMS

\* C5: at or above the threshold every row that meets the buffered viewport is
\* visible, and when at least 20 rows meet it no other row is visible.
C5_VisibleIffInWindow ==
    (unit = "cull" /\ calls >= 1 /\ cullArgs.totalItems >= ENABLE_THRESHOLD)
    => /\ rowsInWindow(cullArgs) \subseteq visibleIn(lastOut)
       /\ Cardinality(rowsInWindow(cullArgs)) >= MIN_VISIBLE_ITEMS
            => visibleIn(lastOut) = rowsInWindow(cullArgs)

\* C5 witness: at least 20 rows meet the window, one of them only touches its
\* upper edge, and some row is culled
C5_Witness ==
    /\ unit = "cull" /\ calls = 1
    /\ cullArgs.totalItems >= ENABLE_THRESHOLD
    /\ Cardinality(rowsInWindow(cullArgs)) >= MIN_VISIBLE_ITEMS
    /\ \E i \in rowsInWindow(cullArgs) :
          cullArgs.rows[i].y + cullArgs.rows[i].height = cullArgs.scrollTop - BUFFER_PX
    /\ visibleIn(lastOut) # 1..Len(lastOut)

\* C6: below the threshold calculateVisibleRows marks every row visible, and a
\* render cycle of the visual whose row list is below the threshold renders
\* every row.
C6_NoCullingBelowThreshold ==
    /\ (unit = "cull" /\ calls >= 1 /\ cullArgs.totalItems < ENABLE_THRESHOLD)
        => visibleIn(lastOut) = 1..Len(cullArgs.rows)
    /\ (unit = "visual" /\ view = "roadmap" /\ Len(allRows) < ENABLE_THRESHOLD)
        => domRows = 1..Len(allRows)

\* C6 witness (function): 26 rows far from the viewport, 99 items, all visible
C6_Witness ==
    /\ unit = "cull" /\ calls = 1
    /\ cullArgs.totalItems = ENABLE_THRESHOLD - 1
    /\ Len(cullArgs.rows) = MaxRows
    /\ rowsInWindow(cullArgs) = {}
    /\ visibleIn(lastOut) = 1..MaxRows

MaxShift == 366    \* largest number of days added or subtracted

ZoneNames == {"UTC", "Australia/Sydney", "America/Havana"}

\* calendar days <<year, month (0-based), date>> around month ends, year ends,
\* 29 February and the daylight-saving transitions of the zones
CivilDays ==
    { <<2024, 1, 28>>, <<2024, 1, 29>>, <<2024, 2, 1>>, <<2024, 11, 31>>,
      <<2025, 0, 1>>, <<2025, 1, 28>>, <<2025, 2, 1>>, <<2025, 2, 8>>,
      <<2025, 2, 9>>, <<2025, 3, 5>>, <<2025, 3, 6>>, <<2025, 5, 15>>,
      <<2025, 9, 4>>, <<2025, 9, 5>>, <<2025, 10, 1>>, <<2025, 10, 2>> }
TimesOfDay == { <<0, 0>>, <<2, 30>>, <<8, 30>>, <<22, 45>> }
DayShifts == { -MaxShift, -31, -2, -1, 0, 1, 2, 31, MaxShift }

\* the Dates new Date(y, m, d, hh, mm) of a process in zone z
DatesIn(z) == { NewDate(z, c[1], c[2], c[3], h[1], h[2]) : c \in CivilDays, h \in TimesOfDay }

InitDaysBetween ==
    /\ unit = "daysBetween"
    /\ \E z \in ZoneNames : \E a \in DatesIn(z), b \in DatesIn(z) :
          dateArgs = [zone |-> z, a |-> a, b |-> b]
    /\ dateOut = <<>> /\ engine = <<>>
    /\ calls = 0
    /\ IdleVisual /\ IdleCull

\* daysBetween(a, b), daysBetween(b, a) and daysBetween(a, a)
DaysBetween ==
    /\ unit = "daysBetween"
    /\ calls = 0
    /\ dateOut' = [ab |-> daysBetween(dateArgs.zone, dateArgs.a, dateArgs.b),
                   ba |-> daysBetween(dateArgs.zone, dateArgs.b, dateArgs.a),
                   aa |-> daysBetween(dateArgs.zone, dateArgs.a, dateArgs.a)]
    /\ calls' = 1
    /\ UNCHANGED <<visualVars, cullVars, dateArgs, engine, unit>>

NextDaysBetween == DaysBetween
SpecDaysBetween == InitDaysBetween /\ [][NextDaysBetween]_vars

InitAddDays ==
    /\ unit = "addDays"
    /\ \E z \in ZoneNames : \E d \in DatesIn(z), n \in DayShifts :
          dateArgs = [zone |-> z, date |-> d, days |-> n]
    /\ dateOut = <<>> /\ engine = <<>>
    /\ calls = 0
    /\ IdleVisual /\ IdleCull

\* r = addDays(date, days), then daysBetween(date, r)
AddDays ==
    /\ unit = "addDays"
    /\ calls = 0
    /\ \E r \in {addDays(dateArgs.zone, dateArgs.date, dateArgs.days)} :
          dateOut' = [result |-> r,
                      between |-> daysBetween(dateArgs.zone, dateArgs.date, r)]
    /\ calls' = 1
    /\ UNCHANGED <<visualVars, cullVars, dateArgs, engine, unit>>

NextAddDays == AddDays
SpecAddDays == InitAddDays /\ [][NextAddDays]_vars

(***************************************************************************)
(* Date arithmetic: claims                                                 *)
(***************************************************************************)
\* the local calendar day <<year, month, date>> of a Date
calendarDay(z, t) == <<getFullYear(z, t), getMonth(z, t), getDate(z, t)>>

\* the number of the local calendar day (days since 1970-01-01)
dayNumber(z, t) == Day(LocalTime(z, t))

\* C9: daysBetween(a, a) = 0, daysBetween(a, b) = -daysBetween(b, a), and
\* daysBetween(a, b) = 0 whenever a and b fall on the same calendar day,
\* whatever their times of day.
C9_DayCount ==
    (unit = "daysBetween" /\ calls = 1) =>
        /\ dateOut.aa = 0
        /\ dateOut.ab = -dateOut.ba
        /\ calendarDay(dateArgs.zone, dateArgs.a) = calendarDay(dateArgs.zone, dateArgs.b)
              => dateOut.ab = 0

\* C9 witness: 08:30 and 22:45 of 15 June 2025 in Sydney differ by 0 days
C9_Witness ==
    /\ unit = "daysBetween" /\ calls = 1
    /\ dateArgs.zone = "Australia/Sydney"
    /\ dateArgs.a = NewDate("Australia/Sydney", 2025, 5, 15, 8, 30)
    /\ dateArgs.b = NewDate("Australia/Sydney", 2025, 5, 15, 22, 45)
    /\ dateArgs.b - dateArgs.a = 14 * 60 + 15
    /\ dateOut.ab = 0 /\ dateOut.ba = 0

\* C10: addDays(d, n) is the calendar day n days after d and
\* daysBetween(d, addDays(d, n)) = n, for positive, zero and negative n, across
\* daylight-saving transitions, month and year ends and 29 February
\* (28 February + 2 days is 1 March in 2024 and 2 March in 2025).
C10_AddDaysExact ==
    (unit = "addDays" /\ calls = 1) =>
        /\ dateOut.between = dateArgs.days
        /\ dayNumber(dateArgs.zone, dateOut.result)
              = dayNumber(dateArgs.zone, dateArgs.date) + dateArgs.days
        /\ (calendarDay(dateArgs.zone, dateArgs.date) = <<2024, 1, 28>> /\ dateArgs.days = 2)
              => calendarDay(dateArgs.zone, dateOut.result) = <<2024, 2, 1>>
        /\ (calendarDay(dateArgs.zone, dateArgs.date) = <<2025, 1, 28>> /\ dateArgs.days = 2)
              => calendarDay(dateArgs.zone, dateOut.result) = <<2025, 2, 2>>

\* C10 witness: 4 October 2025 00:00 in Sydney plus 2 days is 6 October 00:00,
\* 47 hours later (5 October has 23 hours)
C10_Witness ==
    /\ unit = "addDays" /\ calls = 1
    /\ dateArgs.zone = "Australia/Sydney"
    /\ calendarDay(dateArgs.zone, dateArgs.date) = <<2025, 9, 4>>
    /\ dateArgs.days = 2
    /\ calendarDay(dateArgs.zone, dateOut.result) = <<2025, 9, 6>>
    /\ dateOut.result - dateArgs.date = 47 * 60
    /\ dateOut.between = 2

(***************************************************************************)
(* dateToX / xToDate as functions: an engine is configured and a date of   *)
(* its view is converted to a position and back                            *)
(***************************************************************************)
MaxDay == 45    \* days from viewStart to viewEnd

CoordZones == {"UTC", "Australia/Sydney"}

InitCoord ==
    /\ unit = "coord"
    /\ \E z \in CoordZones, ts \in TIME_SCALES, zoom \in ZOOM_LEVELS, k \in 0..MaxDay :
          dateArgs = [zone |-> z,
                      config |-> [viewStart |-> NewDate(z, 2025, 2, 1, 0, 0),
                                  viewEnd |-> NewDate(z, 2025, 2, 1 + MaxDay, 0, 0),
                                  timeScale |-> ts, zoomLevel |-> zoom],
                      date |-> NewDate(z, 2025, 2, 1 + k, 0, 0)]
    /\ dateOut = <<>> /\ engine = <<>>
    /\ calls = 0
    /\ IdleVisual /\ IdleCull

\* x = dateToX(date), then xToDate(x)
RoundTrip ==
    /\ unit = "coord"
    /\ calls = 0
    /\ \E x \in {dateToX(dateArgs.zone, dateArgs.config, dateArgs.date)} :
          dateOut' = [x |-> x, date |-> xToDate(dateArgs.zone, dateArgs.config, x)]
    /\ calls' = 1
    /\ UNCHANGED <<visualVars, cullVars, dateArgs, engine, unit>>

NextCoord == RoundTrip
SpecCoord == InitCoord /\ [][NextCoord]_vars

(***************************************************************************)
(* Coordinates: claims                                                     *)
(***************************************************************************)
\* C8 as stated: for every time scale, zoom level and date d of the view,
\* xToDate(dateToX(d)) falls on the same calendar day as d.
C8_RoundTripSameDay ==
    (unit = "coord" /\ calls = 1) =>
        calendarDay(dateArgs.zone, dateOut.date) = calendarDay(dateArgs.zone, dateArgs.date)


(***************************************************************************)
(* DateService.getWeekNumber                                               *)
(***************************************************************************)
\* Date.prototype.getUTCDay: 0 is Sunday (1970-01-01 was a Thursday)
getUTCDay(t) == (Day(t) + 4) % 7

\* Date.prototype.setUTCDate(dt): the UTC fields with the date replaced
setUTCDate(t, dt) ==
    MakeDay(YearFromTime(t), MonthFromTime(t), dt) * TicksPerDay + TimeWithinDay(t)

\* a variant that keeps Sunday as day 0 of the week
dayNumSundayFirst(utcDay) == utcDay

\* const dayNum = d.getUTCDay() || 7
dayNum(utcDay) == IF utcDay = 0 THEN 7 ELSE utcDay

getWeekNumber(z, date) ==
    LET d0 == DateUTC(getFullYear(z, date), getMonth(z, date), getDate(z, date))
        d == setUTCDate(d0, DateFromTime(d0) + 4 - dayNum(getUTCDay(d0)))
        yearStart == DateUTC(YearFromTime(d), 0, 1)
    IN  Ceil(((d - yearStart) \div TicksPerDay) + 1, 7)

(***************************************************************************)
(* DateService.getWeekNumber as a function: a caller in a time zone asks   *)
(* for the week numbers of the seven days of a week, Monday to Sunday, and *)
(* of the Monday after it, all at one time of day.  Weeks are counted from *)
(* the week of Monday 30 December 2019; the zones with clock changes are   *)
(* called with the weeks their transition tables cover.                    *)
(***************************************************************************)
MaxWeek == 366

FirstMonday == MakeDay(2019, 11, 30)
Mondays == { FirstMonday + 7 * w : w \in 0..MaxWeek }
MondaysIn(z) ==
    IF z = "UTC" THEN Mondays
    ELSE { n \in Mondays : MakeDay(2023, 0, 2) <= n /\ n <= MakeDay(2026, 11, 21) }

\* new Date(1970, 0, 1 + n, hh, mm): the Date at hh:mm of local day number n
DateOfDay(z, n, h) == NewDate(z, 1970, 0, 1 + n, h[1], h[2])

InitWeekNumber ==
    /\ unit = "getWeekNumber"
    /\ \E z \in ZoneNames : \E n \in MondaysIn(z), h \in TimesOfDay :
          dateArgs = [zone |-> z, monday |-> n, time |-> h]
    /\ dateOut = <<>> /\ engine = <<>>
    /\ calls = 0
    /\ IdleVisual /\ IdleCull

\* getWeekNumber of Monday .. Sunday and of the next Monday
GetWeekNumber ==
    /\ unit = "getWeekNumber"
    /\ calls = 0
    /\ dateOut' =
          [week |-> AsSeq([i \in 1..7 |->
                       getWeekNumber(dateArgs.zone,
                           DateOfDay(dateArgs.zone, dateArgs.monday + i - 1, dateArgs.time))]),
           next |-> getWeekNumber(dateArgs.zone,
                        DateOfDay(dateArgs.zone, dateArgs.monday + 7, dateArgs.time))]
    /\ calls' = 1
    /\ UNCHANGED <<visualVars, cullVars, dateArgs, engine, unit>>

NextWeekNumber == GetWeekNumber
SpecWeekNumber == InitWeekNumber /\ [][NextWeekNumber]_vars

\* ISO 8601: a week belongs to the year of its Thursday, and its number is
\* the count of that year's Thursdays up to and including its own
thursdayOf(monday) == monday + 3
isoYear(monday) == YearFromTime(thursdayOf(monday) * TicksPerDay)
isoWeek(monday) ==
    Cardinality({ k \in DayFromYear(isoYear(monday))..thursdayOf(monday) : k % 7 = 0 })

\* C11: getWeekNumber is the ISO 8601 week number: it lies in 1..53, the
\* seven dates Monday..Sunday of a week get the same number, the Monday
\* after gets the next number or 1 when a new ISO year starts, and the last
\* week of a year with 53 Thursdays gets 53.
C11_IsoWeekNumber ==
    (unit = "getWeekNumber" /\ calls = 1) =>
        /\ \A i \in 1..7 : dateOut.week[i] \in 1..53 /\ dateOut.week[i] = dateOut.week[1]
        /\ dateOut.week[1] = isoWeek(dateArgs.monday)
        /\ dateOut.next = IF isoYear(dateArgs.monday + 7) # isoYear(dateArgs.monday)
                          THEN 1 ELSE dateOut.week[1] + 1
        /\ (/\ isoYear(dateArgs.monday + 7) # isoYear(dateArgs.monday)
            /\ isoWeek(dateArgs.monday) = 53) => dateOut.week[4] = 53

\* C11 witness: in the week of Monday 28 December 2020, Thursday 31 December
\* 2020 and Friday 1 January 2021 are in week 53 and the next Monday in week 1
C11_Witness ==
    /\ unit = "getWeekNumber" /\ calls = 1
    /\ dateArgs.zone = "UTC"
    /\ dateArgs.monday = MakeDay(2020, 11, 28)
    /\ calendarDay("UTC", DateOfDay("UTC", dateArgs.monday + 4, dateArgs.time)) = <<2021, 0, 1>>
    /\ dateOut.week[4] = 53 /\ dateOut.week[5] = 53
    /\ dateOut.next = 1

(***************************************************************************)
(* Dependency lines: update cycles over dated work items with parent and   *)
(* predecessor references, some of which name no row                       *)
(***************************************************************************)
DatedRow(id, type, parent, predecessor, start, target) ==
    [workItemId |-> id, type |-> type, parent |-> parent, areaPath |-> <<"Alpha">>,
     startDate |-> start, targetDate |-> target, predecessor |-> predecessor]

\* a Date column value: 09:00 of a day of June 2025 in Sydney
JuneDay(d) == <<NewDate("Australia/Sydney", 2025, 5, d, 9, 0)>>

Epic1 == DatedRow(1, "Epic", 0, NoId, JuneDay(2), JuneDay(20))
Epic2 == DatedRow(2, "Epic", 0, NoId, Null, JuneDay(25))
Feature3 == DatedRow(3, "Feature", 1, NoId, JuneDay(5), JuneDay(10))
Milestone4 == DatedRow(4, "Milestone", 1, "3", Null, JuneDay(10))
Feature5 == DatedRow(5, "Feature", 9, "77", JuneDay(5), JuneDay(20))
Feature7 == DatedRow(7, "Feature", 2, "F-3", JuneDay(10), JuneDay(25))
Feature8 == DatedRow(8, "Feature", 2, "abc", JuneDay(2), Null)

DependencyTables ==
    { <<Epic1, Epic2, Feature3, Milestone4, Feature5, Feature7, Feature8>>,
      <<Epic1, Feature3, Milestone4>>,
      <<Feature3, Milestone4, Feature5>> }

DependencyObjects ==
    {NoObjects}
    \cup {[group |-> "dependencies", show |-> TRUE, showParentChild |-> pc,
           showPredecessors |-> pr] : pc, pr \in BOOLEAN}
    \cup {[group |-> "dependencies", show |-> FALSE, showParentChild |-> TRUE,
           showPredecessors |-> TRUE]}
    \cup {[group |-> "organization", groupBy |-> g, showHierarchy |-> TRUE] :
            g \in {"epic", "areaPath"}}
    \cup {[group |-> "levels", showEpics |-> e, showFeatures |-> f, showMilestones |-> TRUE] :
            e, f \in BOOLEAN}

DependencyDataRefresh == DataRefreshOf(DependencyTables)
DependencyFormatChange == FormatChangeOf(DependencyObjects)

NextDependencies ==
    DependencyDataRefresh \/ DependencyFormatChange \/ NoDataView \/ ToggleCollapse
SpecDependencies == Init /\ [][NextDependencies]_vars

\* row i's parentId, or its predecessorId, names a row of the row list
hasData(rows, j) == rows[j].data # NoItem
parentResolves(rows, i) ==
    \E j \in 1..Len(rows) : hasData(rows, j) /\ rows[j].data.id = rows[i].data.parentId
predecessorResolves(rows, i) ==
    LET ref == rows[i].data.predecessorId
    IN  \E j \in 1..Len(rows) :
            /\ hasData(rows, j)
            /\ \/ rows[j].data.workItemId = Number(ref)
               \/ rows[j].data.id \in {ref, "E-" \o ref, "F-" \o ref, "M-" \o ref}

\* the row list with every reference that names no row set to null
withoutUnresolved(rows) ==
    AsSeq([i \in 1..Len(rows) |->
        IF ~hasData(rows, i) THEN rows[i]
        ELSE [rows[i] EXCEPT
                !.data.parentId = IF parentResolves(rows, i) THEN @ ELSE NoId,
                !.data.predecessorId = IF predecessorResolves(rows, i) THEN @ ELSE NoId]])

dependenciesDrawn == unit = "visual" /\ view = "roadmap" /\ settings.showDependencies

\* C12: when dependency lines are drawn, a row whose parentId (predecessorId)
\* names no row of the current row list gets no parent-child (predecessor)
\* connector, the update ends with renderingFinished, and the connectors are
\* those of the same rows with the unresolved references removed.
C12_UnresolvedSkipped ==
    dependenciesDrawn =>
        /\ \A k \in 1..Len(connectors) :
              LET c == connectors[k]
              IN  /\ c.kind = "parentChild" => parentResolves(allRows, c.to)
                  /\ c.kind = "predecessor" => predecessorResolves(allRows, c.to)
        /\ events = <<"renderingStarted", "renderingFinished">>
        /\ connectors = renderDependencyLines(zone, settings, viewStart,
                                              withoutUnresolved(allRows))

\* C12 witness: Feature 5 (parent 9, predecessor 77, neither exists) is a
\* row without connectors while other rows get both kinds of connector
C12_Witness ==
    /\ dependenciesDrawn
    /\ \E i \in 1..Len(allRows) :
          /\ hasData(allRows, i) /\ allRows[i].data.id = "F-5"
          /\ allRows[i].data.parentId # NoId /\ ~parentResolves(allRows, i)
          /\ allRows[i].data.predecessorId # NoId /\ ~predecessorResolves(allRows, i)
          /\ \A k \in 1..Len(connectors) : connectors[k].to # i
    /\ \E k \in 1..Len(connectors) : connectors[k].kind = "parentChild"
    /\ \E k \in 1..Len(connectors) : connectors[k].kind = "predecessor"

(***************************************************************************)
(* Dependency lines under viewport culling: update cycles over tables of   *)
(* one dated Epic and its Features, the second and the last of them dated  *)
(***************************************************************************)
bulkDatedTable(n) ==
    AsSeq([i \in 1..n |->
        IF i = 1 THEN Epic1
        ELSE IF i = 2 \/ i = n
             THEN DatedRow(100 + i, "Feature", 1, NoId, JuneDay(5), JuneDay(10))
             ELSE DatedRow(100 + i, "Feature", 1, NoId, Null, Null)])

BulkDatedTables ==
    {bulkDatedTable(n) : n \in {ENABLE_THRESHOLD - 1, ENABLE_THRESHOLD}}
BulkDependencyObjects ==
    {NoObjects}
    \cup {[group |-> "dependencies", show |-> b, showParentChild |-> pc,
           showPredecessors |-> TRUE] : b, pc \in BOOLEAN}
    \cup {[group |-> "levels", showEpics |-> e, showFeatures |-> TRUE,
           showMilestones |-> TRUE] : e \in BOOLEAN}
    \cup {[group |-> "export", pdfMode |-> b] : b \in BOOLEAN}

BulkDatedRefresh == DataRefreshOf(BulkDatedTables)
BulkDependencyChange == FormatChangeOf(BulkDependencyObjects)

NextBulkDependencies ==
    BulkDatedRefresh \/ BulkDependencyChange \/ NoDataView \/ ToggleCollapse \/ BulkScroll
SpecBulkDependencies == Init /\ [][NextBulkDependencies]_vars

\* the last render culled: it asked calculateVisibleRows which rows to draw
cullingActive ==
    /\ unit = "visual" /\ view = "roadmap"
    /\ Len(allRows) >= ENABLE_THRESHOLD /\ ~settings.pdfMode

\* C13: in an update cycle in which viewport culling is active, every
\* emitted connector has both its source row and its target row among the
\* rows rendered in that cycle.
C13_ConnectorEndsRendered ==
    cullingActive =>
        \A k \in 1..Len(connectors) :
            connectors[k].from \in domRows /\ connectors[k].to \in domRows

(***************************************************************************)
(* Row layout: the rows of the hierarchy mode and of the grouped mode      *)
(***************************************************************************)
\* the positions of the rows of a type, in row order, and the rows at
\* positions lo..hi
positionsOf(rows, type) ==
    SelectSeq(AsSeq([i \in 1..Len(rows) |-> i]), LAMBDA i : rows[i].type = type)
dataOf(rows, positions) == AsSeq([k \in 1..Len(positions) |-> rows[positions[k]].data])

\* the items that pass the type-visibility filter, in input order
visibleOf(items, s) == SelectSeq(items, LAMBDA w : isVisibleItem(s, w))

\* the number of direct visible non-Epic children of an Epic
directChildCount(items, s, epicId) ==
    Cardinality({j \in 1..Len(items) :
        /\ items[j].type # "Epic" /\ isVisibleItem(s, items[j])
        /\ items[j].parentId = epicId})

hierarchyLaidOut == unit = "rows" /\ calls = 1 /\ settings.groupBy = "epic" /\ ~settings.pdfMode

\* the Epic rows: one per visible Epic, in input order, level 0, isParent,
\* childCount = its direct visible non-Epic children
EpicRowsInOrder ==
    LET epicRows == positionsOf(allRows, "Epic")
    IN  /\ dataOf(allRows, epicRows)
             = SelectSeq(visibleOf(workItems, settings), LAMBDA w : w.type = "Epic")
        /\ \A k \in 1..Len(epicRows) :
              LET r == allRows[epicRows[k]]
              IN  /\ r.level = 0 /\ r.isParent
                  /\ r.childCount = directChildCount(workItems, settings, r.data.id)

\* C14 as stated: in hierarchy mode (pdfMode off) every visible Epic yields
\* one row, in input order, with level 0, isParent and childCount = its direct
\* visible non-Epic children; its child rows follow it whenever its key is not
\* in the collapsed set and are omitted when it is.
C14_Original ==
    hierarchyLaidOut =>
        /\ EpicRowsInOrder
        /\ \A i \in 1..Len(allRows) :
              allRows[i].type = "Epic" =>
                  IF allRows[i].data.id \notin collapsed
                  THEN ChildrenFollowEpic(i)
                  ELSE rowsUntilNextEpic(allRows, i + 1) = <<>>

\* C14 amended: as above, but the Milestone and Feature child rows follow the
\* Epic (at level 1) only when its key is not in the collapsed set and
\* showHierarchy is on; otherwise the Epic has no child rows.
C14_EpicRows ==
    hierarchyLaidOut =>
        /\ EpicRowsInOrder
        /\ \A i \in 1..Len(allRows) :
              allRows[i].type = "Epic" =>
                  IF allRows[i].data.id \notin collapsed /\ settings.showHierarchy
                  THEN /\ ChildrenFollowEpic(i)
                       /\ \A j \in (i + 1)..Len(allRows) :
                             (\A k \in (i + 1)..j : allRows[k].type # "Epic")
                                 => allRows[j].level = 1
                  ELSE rowsUntilNextEpic(allRows, i + 1) = <<>>

\* C14 witness: Epic 1 with Feature 3 and Task 7 below it in the input is
\* collapsed: its row counts two children and no child row is emitted
C14_Witness ==
    /\ hierarchyLaidOut /\ settings.showHierarchy
    /\ "E-1" \in collapsed
    /\ [i \in 1..Len(workItems) |-> workItems[i].id] = <<"E-1", "F-3", "T-7">>
    /\ Len(allRows) = 1
    /\ allRows[1].data.id = "E-1" /\ allRows[1].collapsed
    /\ allRows[1].childCount = 2 /\ allRows[1].level = 0 /\ allRows[1].isParent

\* ---- grouped mode ----
groupedLaidOut == unit = "rows" /\ calls = 1 /\ settings.groupBy # "epic"

\* the bucket of a group key: the visible items with that key, in input order
bucketOf(items, s, name) ==
    SelectSeq(visibleOf(items, s), LAMBDA w : getGroupKey(s, w) = name)

\* the rows after the header at position i up to the next header
memberRows(rows, i) ==
    LET later == {j \in (i + 1)..Len(rows) : rows[j].type = "GroupHeader"}
        next == IF later = {} THEN Len(rows) + 1 ELSE MinOf(later)
    IN  SubSeq(rows, i + 1, next - 1)

\* Epic before Milestone before Feature
precedes(a, b) ==
    \/ a = "Epic" /\ b \in {"Milestone", "Feature"}
    \/ a = "Milestone" /\ b = "Feature"

\* members is the bucket reordered by type precedence, each type in input order
SortedByType(members, bucket) ==
    /\ Len(members) = Len(bucket)
    /\ \A t \in {bucket[k].type : k \in 1..Len(bucket)} :
          SelectSeq(members, LAMBDA w : w.type = t) = SelectSeq(bucket, LAMBDA w : w.type = t)
    /\ \A a, b \in 1..Len(members) :
          precedes(members[a].type, members[b].type) => a < b

flatLaidOut == unit = "rows" /\ calls = 1 /\ settings.groupBy = "epic" /\ ~settings.showEpics

LEFT_PANEL_WIDTH == 280

\* new CoordinateEngine(config), in a process of time zone z
\* totalDays * dayWidth; the width of an inverted window is negative and
\* carries its sign
timelineWidthOf(totalDays, dayWidth) ==
    IF totalDays >= 0 THEN times(fromInt(totalDays), dayWidth)
    ELSE product(fromInteger(totalDays), Signed(FALSE, dayWidth))

CoordinateEngine(z, config) ==
    LET dayWidth == calculateDayWidth(config)
        totalDays == daysBetween(z, config.viewStart, config.viewEnd)
    IN  [config |-> config, dayWidth |-> dayWidth, totalDays |-> totalDays,
         timelineWidth |-> timelineWidthOf(totalDays, dayWidth)]

\* { ...config, ...updates }
spread(config, updates) ==
    [k \in DOMAIN config |-> IF k \in DOMAIN updates THEN updates[k] ELSE config[k]]

\* a variant that recomputes the widths only
updateConfigKeepsTotalDays(z, e, updates) ==
    LET config == spread(e.config, updates)
        dayWidth == calculateDayWidth(config)
    IN  [config |-> config, dayWidth |-> dayWidth, totalDays |-> e.totalDays,
         timelineWidth |-> times(fromInt(e.totalDays), dayWidth)]

updateConfig(z, e, updates) ==
    LET config == spread(e.config, updates)
        dayWidth == calculateDayWidth(config)
        totalDays == daysBetween(z, config.viewStart, config.viewEnd)
    IN  [config |-> config, dayWidth |-> dayWidth, totalDays |-> totalDays,
         timelineWidth |-> timelineWidthOf(totalDays, dayWidth)]

\* ---- an engine is constructed and reconfigured MaxUpdates times ----
MaxUpdates == 3

\* view starts and view ends (every start is on or before every end)
ViewStarts(z) == {NewDate(z, 2025, 2, 1, 0, 0), NewDate(z, 2025, 3, 6, 0, 0)}
ViewEnds(z) == {NewDate(z, 2025, 3, 6, 0, 0), NewDate(z, 2025, 5, 15, 0, 0)}

\* Partial<CoordinateConfig>: no key, one key, or two keys
ConfigUpdates(z) ==
    {<<>>}
    \cup {[viewStart |-> a] : a \in ViewStarts(z)}
    \cup {[viewEnd |-> b] : b \in ViewEnds(z)}
    \cup {[timeScale |-> ts] : ts \in TIME_SCALES}
    \cup {[zoomLevel |-> zoom] : zoom \in ZOOM_LEVELS}
    \cup {[viewStart |-> a, viewEnd |-> b] : a \in ViewStarts(z), b \in ViewEnds(z)}
    \cup {[timeScale |-> "multiYear", zoomLevel |-> decimal(5, 1)]}

InitEngine ==
    /\ unit = "engine"
    /\ \E z \in CoordZones :
          /\ dateArgs = [zone |-> z]
          /\ engine = CoordinateEngine(z,
                         [viewStart |-> NewDate(z, 2025, 2, 1, 0, 0),
                          viewEnd |-> NewDate(z, 2025, 3, 6, 0, 0),
                          timeScale |-> "monthly", zoomLevel |-> decimal(1, 0),
                          leftPanelWidth |-> LEFT_PANEL_WIDTH])
    /\ dateOut = <<>>
    /\ calls = 0
    /\ IdleVisual /\ IdleCull

UpdateConfig ==
    /\ unit = "engine"
    /\ calls < MaxUpdates
    /\ \E updates \in ConfigUpdates(dateArgs.zone) :
          engine' = updateConfig(dateArgs.zone, engine, updates)
    /\ calls' = calls + 1
    /\ UNCHANGED <<visualVars, cullVars, dateArgs, dateOut, unit>>

NextEngine == UpdateConfig
SpecEngine == InitEngine /\ [][NextEngine]_vars

UnknownScales == {"hourly"}
UnknownZooms == {decimal(3, 0), decimal(6, 1)}

DisplayOf(Scales, Zooms) ==
    {[group |-> "display", viewScale |-> vs, rowDensity |-> "", zoomLevel |-> zoom] :
        vs \in Scales, zoom \in Zooms}
DisplayObjects ==
    DisplayOf({"", "weekly", "multiYear"} \cup UnknownScales,
              {Zero, decimal(5, 1), decimal(4, 0)} \cup UnknownZooms)

DisplayChange == FormatChangeOf(DisplayObjects)
NextSettings == DataRefresh \/ DisplayChange \/ NoDataView \/ ToggleCollapse \/ Scroll
SpecSettings == Init /\ [][NextSettings]_vars

\* the enumerated zoom levels nearest to an unrecognised zoom level of the model
nearestZoomLevels(zoom) ==
    CASE zoom = decimal(3, 0) -> {decimal(2, 0), decimal(4, 0)}
      [] zoom = decimal(6, 1) -> {decimal(5, 1)}

\* update() with the current data and a display group of the given values
DisplayUpdate(Scales, Zooms) == FormatChangeOf(DisplayOf(Scales, Zooms))

\* C18 as stated: an update cycle whose display settings carry an
\* unrecognised timeScale leaves timeScale = monthly, one that carries an
\* unrecognised zoomLevel leaves the nearest enumerated zoom level or 1, and
\* the cycle ends with renderingFinished, whatever the earlier cycles set.
C18_UnknownFallsBack ==
    [][/\ DisplayUpdate(UnknownScales, {Zero})
            => settings'.timeScale = "monthly"
               /\ events' = <<"renderingStarted", "renderingFinished">>
       /\ \A zoom \in UnknownZooms :
             DisplayUpdate({""}, {zoom})
                 => settings'.zoomLevel \in nearestZoomLevels(zoom) \cup {decimal(1, 0)}
                    /\ events' = <<"renderingStarted", "renderingFinished">>]_vars

(***************************************************************************)
(* Time window: update cycles over dated and undated work items, in a      *)
(* process in Sydney and in one in Havana                                  *)
(***************************************************************************)
WindowZones == {"Australia/Sydney", "America/Havana"}

\* noon of 9 March 2025 in Havana, the day whose first hour is skipped
HavanaSpringDay == <<NewDate("America/Havana", 2025, 2, 9, 12, 0)>>

WindowTables ==
    { <<RawRow(1, "Epic", 0, <<"Alpha">>), RawRow(3, "Feature", 1, <<"Alpha">>)>>,
      <<Epic1, Feature3, Milestone4>>,
      <<Feature8>>,
      <<DatedRow(1, "Epic", 0, NoId, HavanaSpringDay, JuneDay(2)), Feature3>> }

WindowDataRefresh == DataRefreshOf(WindowTables)
InitWindow == InitVisualIn(WindowZones, Clock) /\ IdleCull /\ IdleDate
WindowFormatChange ==
    FormatChangeOf({NoObjects}
        \cup {[group |-> "levels", showEpics |-> e, showFeatures |-> TRUE,
               showMilestones |-> TRUE] : e \in BOOLEAN})
NextWindow ==
    WindowDataRefresh \/ WindowFormatChange \/ NoDataView \/ ToggleCollapse \/ Scroll
SpecWindow == InitWindow /\ [][NextWindow]_vars

\* a Date without a time-of-day component: local midnight
isDayBoundary(z, t) == TimeWithinDay(LocalTime(z, t)) = 0

\* the window spans from pad days before the local day of the Date from to
\* after days after the local day of the Date to
spansDays(z, from, before, to, after) ==
    /\ dayNumber(z, viewStart) = dayNumber(z, from) - before
    /\ dayNumber(z, viewEnd) = dayNumber(z, to) + after

windowRendered == unit = "visual" /\ view = "roadmap"

\* the window of a rendered cycle is ordered and spans [earliest item date -
\* 14 days, latest item date + 28 days], or, when no item has a date, [now -
\* 14 days, now + 90 + 28 days]
WindowSpans ==
    windowRendered =>
        /\ viewStart <= viewEnd
        /\ LET dates == itemDates(workItems)
           IN  IF dates # {}
               THEN spansDays(zone, MinOf(dates), TIMELINE_PADDING.BEFORE,
                              MaxOf(dates), TIMELINE_PADDING.AFTER)
               ELSE \E now \in Clock :
                       spansDays(zone, now, TIMELINE_PADDING.BEFORE, now,
                                 TIMELINE_PADDING.DEFAULT_SPAN + TIMELINE_PADDING.AFTER)

\* viewStart has no time-of-day component in the cycles with a dated item
DatedWindowStartsAtMidnight ==
    (windowRendered /\ itemDates(workItems) # {}) => isDayBoundary(zone, viewStart)

\* C19 as stated: in every update cycle that reaches rendering, viewStart <=
\* viewEnd, viewStart has no time-of-day component, the window is [earliest
\* item date - 14 days, latest item date + 28 days], and when no item has a
\* date it is the default span around the current day.
C19_TimeWindow ==
    /\ WindowSpans
    /\ windowRendered => isDayBoundary(zone, viewStart)

(***************************************************************************)
(* Rendering events: update cycles that return early, render, or throw     *)
(***************************************************************************)
EventsTables == { <<>>, <<Epic1, Feature3>>, <<Feature8>> }
FailedUpdate == FailedUpdateOf(EventsTables)
EventsDataRefresh == DataRefreshOf(EventsTables)
EventsFormatChange ==
    FormatChangeOf({NoObjects}
        \cup {[group |-> "levels", showEpics |-> e, showFeatures |-> TRUE,
               showMilestones |-> TRUE] : e \in BOOLEAN})
NextEvents ==
    EventsDataRefresh \/ EventsFormatChange \/ NoDataView \/ FailedUpdate
        \/ ToggleCollapse \/ Scroll
SpecEvents == Init /\ [][NextEvents]_vars

\* C20: every update() signals renderingStarted once, first, and then
\* exactly one of renderingFinished and renderingFailed: renderingFinished
\* when it showed the roadmap or an empty state (no data view, no work
\* items), renderingFailed when parsing or rendering threw.
C20_RenderingEvents ==
    unit = "visual" =>
        \/ events = <<>> /\ view = "blank"
        \/ /\ Len(events) = 2
           /\ events[1] = "renderingStarted"
           /\ events[2] \in {"renderingFinished", "renderingFailed"}
           /\ events[2] = "renderingFinished" <=> view \in {"noData", "noItems", "roadmap"}
           /\ events[2] = "renderingFailed" <=> view = "blank"

\* C20 witness: an update that threw while rendering, after earlier cycles
\* had rendered rows: the container is blank and renderingFailed was signalled
C20_Witness ==
    /\ unit = "visual" /\ view = "blank"
    /\ events = <<"renderingStarted", "renderingFailed">>
    /\ workItems # <<>> /\ allRows # <<>>

(***************************************************************************)
(* DateService.parseDate over absent, unparseable and parseable values     *)
(***************************************************************************)
DateStrings ==
    {"", "not-a-date", "2025-06-15", "2025-06-15T14:30:00.000Z",
     "2025-01-01T03:00:00.000Z", "2025-06-15T23:30:00", "2025-03-09T12:00:00"}

\* the values of a process in zone z, each with the instant it denotes
\* (<<>> when it denotes none)
ParseInputs(z) ==
    {[value |-> JsNull, instant |-> <<>>], [value |-> JsUndefined, instant |-> <<>>],
     [value |-> JsNumber(NaN), instant |-> <<>>], [value |-> JsDate(NaN), instant |-> <<>>],
     [value |-> JsString(""), instant |-> <<>>],
     [value |-> JsString("not-a-date"), instant |-> <<>>],
     [value |-> JsString("2025-06-15"), instant |-> <<UtcTime(2025, 5, 15, 0, 0)>>],
     [value |-> JsString("2025-06-15T14:30:00.000Z"),
      instant |-> <<UtcTime(2025, 5, 15, 14, 30)>>],
     [value |-> JsString("2025-01-01T03:00:00.000Z"),
      instant |-> <<UtcTime(2025, 0, 1, 3, 0)>>],
     [value |-> JsString("2025-06-15T23:30:00"),
      instant |-> <<NewDate(z, 2025, 5, 15, 23, 30)>>],
     [value |-> JsString("2025-03-09T12:00:00"),
      instant |-> <<NewDate(z, 2025, 2, 9, 12, 0)>>],
     [value |-> JsNumber(TimeValue(0)), instant |-> <<0>>]}
    \cup {[value |-> JsDate(TimeValue(d)), instant |-> <<d>>] : d \in DatesIn(z)}
    \cup {[value |-> JsNumber(TimeValue(d)), instant |-> <<d>>] : d \in DatesIn(z)}

InitParseDate ==
    /\ unit = "parseDate"
    /\ \E z \in ZoneNames : \E in \in ParseInputs(z) :
          dateArgs = [zone |-> z, value |-> in.value, instant |-> in.instant]
    /\ dateOut = <<>> /\ engine = <<>>
    /\ calls = 0
    /\ IdleVisual /\ IdleCull

ParseDate ==
    /\ unit = "parseDate"
    /\ calls = 0
    /\ dateOut' = [date |-> parseDate(dateArgs.zone, dateArgs.value)]
    /\ calls' = 1
    /\ UNCHANGED <<visualVars, cullVars, dateArgs, engine, unit>>

NextParseDate == ParseDate
SpecParseDate == InitParseDate /\ [][NextParseDate]_vars

parseDateCalled == unit = "parseDate" /\ calls = 1

\* the result is local midnight of the local calendar day of instant t
midnightOfSameDay(z, result, t) ==
    /\ result # Null
    /\ TimeWithinDay(LocalTime(z, result[1])) = 0
    /\ Day(LocalTime(z, result[1])) = Day(LocalTime(z, t))

\* a value that denotes no instant yields null
AbsentOrUnparseableIsNull ==
    parseDateCalled /\ dateArgs.instant = <<>> => dateOut.date = Null

\* C21: parseDate returns null for an absent or unparseable value, and for
\* every parseable value a Date at local midnight (time of day 0) of the
\* local calendar day of the input.
C21_ParseDate ==
    parseDateCalled =>
        IF dateArgs.instant = <<>> THEN dateOut.date = Null
        ELSE midnightOfSameDay(dateArgs.zone, dateOut.date, dateArgs.instant[1])

\* what holds of every parseable value: the result is null only for the
\* number 0, and otherwise the first instant of the input's local calendar
\* day (00:00, or 01:00 on the day whose midnight the zone skips)
ParseableKeepsDay ==
    parseDateCalled /\ dateArgs.instant # <<>> =>
        IF dateArgs.value = JsNumber(TimeValue(0)) THEN dateOut.date = Null
        ELSE /\ dateOut.date # Null
             /\ Day(LocalTime(dateArgs.zone, dateOut.date[1]))
                   = Day(LocalTime(dateArgs.zone, dateArgs.instant[1]))
             /\ dateOut.date[1] <= dateArgs.instant[1]
             /\ \A t \in (dateOut.date[1] - 60)..(dateOut.date[1] - 1) :
                   Day(LocalTime(dateArgs.zone, t)) # Day(LocalTime(dateArgs.zone, dateOut.date[1]))

(***************************************************************************)
(* The minimum-floor fallback of calculateVisibleRows                      *)
(***************************************************************************)
\* the fallback runs: at or above the threshold, at least 20 rows, fewer
\* than 20 of them meet the buffered viewport
fallbackRuns ==
    /\ unit = "cull" /\ calls >= 1
    /\ cullArgs.totalItems >= ENABLE_THRESHOLD
    /\ Len(cullArgs.rows) >= MIN_VISIBLE_ITEMS
    /\ Cardinality(rowsInWindow(cullArgs)) < MIN_VISIBLE_ITEMS

\* twice the distance of the centre of row i from the centre of the viewport
centreOffset2(a, i) ==
    Abs((2 * a.rows[i].y + a.rows[i].height) - (2 * a.scrollTop + a.viewportHeight))

\* row j comes before row i in order of distance (row order on a tie)
closerThan(a, j, i) ==
    \/ centreOffset2(a, j) < centreOffset2(a, i)
    \/ centreOffset2(a, j) = centreOffset2(a, i) /\ j < i

\* the k rows whose centre is closest to the centre of the viewport
closestRows(a, k) ==
    {i \in 1..Len(a.rows) :
        Cardinality({j \in 1..Len(a.rows) : closerThan(a, j, i)}) < k}

newlyMarked == visibleIn(lastOut) \ rowsInWindow(cullArgs)
shortfall == MIN_VISIBLE_ITEMS - Cardinality(rowsInWindow(cullArgs))

\* C22 as stated: the rows the fallback newly marks number exactly the
\* shortfall, and no unmarked row is closer to the viewport centre than a
\* newly marked one.
C22_Original ==
    fallbackRuns =>
        /\ Cardinality(newlyMarked) = shortfall
        /\ \A i \in newlyMarked : \A j \in (1..Len(lastOut)) \ visibleIn(lastOut) :
              closerThan(cullArgs, i, j)

\* C22: when the fallback runs, the visible rows are the rows that meet the
\* buffered viewport together with the 20 rows whose centre is closest to
\* the viewport centre; the newly marked rows number at least the shortfall
\* and at most 20, and exactly the shortfall when every row that meets the
\* viewport is among the 20 closest.
C22_FallbackMarksClosest ==
    fallbackRuns =>
        /\ visibleIn(lastOut)
              = rowsInWindow(cullArgs) \cup closestRows(cullArgs, MIN_VISIBLE_ITEMS)
        /\ Cardinality(newlyMarked) >= shortfall
        /\ Cardinality(newlyMarked) <= MIN_VISIBLE_ITEMS
        /\ rowsInWindow(cullArgs) \subseteq closestRows(cullArgs, MIN_VISIBLE_ITEMS)
              => Cardinality(newlyMarked) = shortfall
        /\ \A i \in newlyMarked : \A j \in (1..Len(lastOut)) \ visibleIn(lastOut) :
              closerThan(cullArgs, i, j)

\* C22 witness: only the tall last row meets the viewport and the 20 closest
\* rows are short rows above it: 20 rows are newly marked, one more than the
\* shortfall of 19
C22_Witness ==
    /\ fallbackRuns /\ calls = 1
    /\ cullArgs.scrollTop = 550
    /\ rowsInWindow(cullArgs) = {MaxRows}
    /\ Cardinality(newlyMarked) = MIN_VISIBLE_ITEMS
    /\ shortfall = MIN_VISIBLE_ITEMS - 1

(***************************************************************************)
(* Connector ends: update cycles over tables with dated and undated ends   *)
(***************************************************************************)
\* an Epic without a target date, and a Feature of it that it also precedes
Epic6 == DatedRow(6, "Epic", 0, NoId, JuneDay(2), Null)
Feature9 == DatedRow(9, "Feature", 6, "6", JuneDay(5), JuneDay(10))

ConnectorTables == { <<Epic6, Feature9>>, <<Epic1, Feature3, Milestone4>>, <<Epic1, Epic6, Feature9>> }
ConnectorObjects ==
    {NoObjects}
    \cup {[group |-> "dependencies", show |-> TRUE, showParentChild |-> pc,
           showPredecessors |-> pr] : pc, pr \in BOOLEAN}
    \cup {[group |-> "organization", groupBy |-> g, showHierarchy |-> TRUE] :
            g \in {"epic", "areaPath"}}

ConnectorDataRefresh == DataRefreshOf(ConnectorTables)
ConnectorFormatChange == FormatChangeOf(ConnectorObjects)
NextConnectors ==
    ConnectorDataRefresh \/ ConnectorFormatChange \/ NoDataView \/ ToggleCollapse \/ Scroll
SpecConnectors == Init /\ [][NextConnectors]_vars

\* the rows an edge into row i starts from: the row of its parent, the rows
\* its predecessorId may name
parentRows(rows, i) ==
    {j \in 1..Len(rows) : hasData(rows, j) /\ rows[j].data.id = rows[i].data.parentId}
predecessorRows(rows, i) ==
    {j \in 1..Len(rows) :
        /\ hasData(rows, j)
        /\ \/ rows[j].data.workItemId = Number(rows[i].data.predecessorId)
           \/ rows[j].data.id \in {rows[i].data.predecessorId,
                                   "E-" \o rows[i].data.predecessorId,
                                   "F-" \o rows[i].data.predecessorId,
                                   "M-" \o rows[i].data.predecessorId}}

\* the connectors of a kind that end at row i
connectorsInto(kind, i) ==
    {k \in 1..Len(connectors) : connectors[k].kind = kind /\ connectors[k].to = i}

\* the end x of the source row and the start x of row i, in days
anchoredAt(c, froms) ==
    /\ c.from \in froms
    /\ c.fromDays = (IF allRows[c.from].data.targetDate # Null
                     THEN daysBetween(zone, viewStart, allRows[c.from].data.targetDate[1])
                     ELSE 0)
    /\ c.toDays = (IF allRows[c.to].data.startDate # Null
                   THEN daysBetween(zone, viewStart, allRows[c.to].data.startDate[1])
                   ELSE IF allRows[c.to].data.targetDate # Null
                   THEN daysBetween(zone, viewStart, allRows[c.to].data.targetDate[1])
                   ELSE 0)

\* the edges of a kind into the item rows: <<i, froms>>
edgesOf(kind) ==
    {<<i, IF kind = "parentChild" THEN parentRows(allRows, i) ELSE predecessorRows(allRows, i)>> :
        i \in {j \in 1..Len(allRows) :
                 /\ hasData(allRows, j) /\ allRows[j].type # "GroupHeader"
                 /\ IF kind = "parentChild" THEN allRows[j].data.parentId # NoId
                    ELSE allRows[j].data.predecessorId # NoId}}
enabledKinds ==
    {kind \in {"parentChild", "predecessor"} :
        IF kind = "parentChild" THEN settings.showParentChild ELSE settings.showPredecessors}

\* C23: every parent-child or predecessor edge of an enabled family whose
\* ends both resolve to rows has exactly one connector, from the source
\* row's end x (0 if it has no targetDate) to the row's start x (of its
\* startDate, else of its targetDate); an undated end does not suppress it.
C23_ConnectorPerEdge ==
    dependenciesDrawn =>
        \A kind \in enabledKinds : \A e \in edgesOf(kind) :
            e[2] # {} =>
                /\ Cardinality(connectorsInto(kind, e[1])) = 1
                /\ \A k \in connectorsInto(kind, e[1]) : anchoredAt(connectors[k], e[2])

\* what the code does: a resolved edge has its connector, anchored as above,
\* exactly when both of its end x are positive, and no connector otherwise
ConnectorIffBothPositive ==
    dependenciesDrawn =>
        /\ \A k \in 1..Len(connectors) :
              /\ connectors[k].kind \in enabledKinds
              /\ connectors[k].fromDays > 0 /\ connectors[k].toDays > 0
        /\ \A kind \in enabledKinds : \A e \in edgesOf(kind) :
              /\ Cardinality(connectorsInto(kind, e[1])) <= 1
              /\ \A k \in connectorsInto(kind, e[1]) : anchoredAt(connectors[k], e[2])
              /\ (e[2] # {} /\ connectorsInto(kind, e[1]) = {}) =>
                    \E j \in e[2] :
                        \/ allRows[j].data.targetDate = Null
                        \/ (allRows[e[1]].data.startDate = Null
                              /\ allRows[e[1]].data.targetDate = Null)

(***************************************************************************)
(* Reference resolution: update cycles over dated work items, two of which *)
(* share a workItemId                                                      *)
(***************************************************************************)
Feature1 == DatedRow(1, "Feature", 1, "E-1", JuneDay(5), JuneDay(10))
Feature3After1 == DatedRow(3, "Feature", 1, "1", JuneDay(10), JuneDay(20))
Milestone4After3 == DatedRow(4, "Milestone", 1, "3", JuneDay(12), JuneDay(12))
Feature5After77 == DatedRow(5, "Feature", 9, "77", JuneDay(5), JuneDay(20))
Task7AfterF3 == DatedRow(7, "Task", 1, "F-3", JuneDay(5), JuneDay(20))

ResolutionTables ==
    { <<Epic1, Feature1, Feature3After1, Milestone4After3>>,
      <<Epic1, Feature3After1, Feature5After77, Task7AfterF3>>,
      <<Feature1, Epic1, Feature3After1>> }
ResolutionObjects ==
    {NoObjects,
     [group |-> "dependencies", show |-> TRUE, showParentChild |-> TRUE,
      showPredecessors |-> TRUE]}
    \cup {[group |-> "organization", groupBy |-> g, showHierarchy |-> TRUE] :
            g \in {"epic", "areaPath"}}
    \cup {[group |-> "levels", showEpics |-> e, showFeatures |-> f, showMilestones |-> TRUE] :
            e, f \in BOOLEAN}

ResolutionDataRefresh == DataRefreshOf(ResolutionTables)
ResolutionFormatChange == FormatChangeOf(ResolutionObjects)
NextResolution ==
    ResolutionDataRefresh \/ ResolutionFormatChange \/ NoDataView \/ ToggleCollapse \/ Scroll
SpecResolution == Init /\ [][NextResolution]_vars

\* the rows that carry a work item with this composite key / numeric id
rowsWithKey(rows, key) == {j \in 1..Len(rows) : hasData(rows, j) /\ rows[j].data.id = key}
rowsWithNumber(rows, n) ==
    {j \in 1..Len(rows) : hasData(rows, j) /\ rows[j].data.workItemId = n}

\* the five lookups of a predecessorId, in the order they are tried
lookups(rows, ref) ==
    <<rowsWithNumber(rows, Number(ref)), rowsWithKey(rows, ref),
      rowsWithKey(rows, "E-" \o ref), rowsWithKey(rows, "F-" \o ref),
      rowsWithKey(rows, "M-" \o ref)>>

\* the row of the first lookup that finds any (the last row of the list
\* among those it finds, as a Map keeps the last value set for a key), {} if
\* none does
firstHit(tries) ==
    IF \A n \in 1..Len(tries) : tries[n] = {} THEN {}
    ELSE {MaxOf(tries[CHOOSE n \in 1..Len(tries) :
                          tries[n] # {} /\ \A m \in 1..(n - 1) : tries[m] = {}])}

\* every row of the list has both dates, so that a resolved edge is drawn
allDated(rows) ==
    \A j \in 1..Len(rows) :
        hasData(rows, j) => rows[j].data.startDate # Null /\ rows[j].data.targetDate # Null

itemRowsOf(rows) ==
    {j \in 1..Len(rows) : hasData(rows, j) /\ rows[j].type # "GroupHeader"}

\* the source rows of the connectors of a kind into row i
sourcesInto(kind, i) == {connectors[k].from : k \in connectorsInto(kind, i)}

\* C24: a predecessorId resolves to the row found by the first of the
\* lookups numeric workItemId, composite key p, "E-"+p, "F-"+p, "M-"+p that
\* finds a row, and is unresolved if none does; a parentId resolves only to
\* a row whose composite key equals it.
C24_ReferenceResolution ==
    (dependenciesDrawn /\ settings.showPredecessors /\ settings.showParentChild
        /\ allDated(allRows)) =>
        \A i \in itemRowsOf(allRows) :
            /\ allRows[i].data.predecessorId # NoId =>
                  sourcesInto("predecessor", i)
                      = firstHit(lookups(allRows, allRows[i].data.predecessorId))
            /\ allRows[i].data.predecessorId = NoId => sourcesInto("predecessor", i) = {}
            /\ allRows[i].data.parentId # NoId =>
                  sourcesInto("parentChild", i)
                      = firstHit(<<rowsWithKey(allRows, allRows[i].data.parentId)>>)
            /\ allRows[i].data.parentId = NoId => sourcesInto("parentChild", i) = {}

\* C24 witness: Epic 1 and Feature 1 share the workItemId 1; Feature 3
\* (predecessor "1") resolves by number to Feature 1 although "E-1" is a key
\* too, Feature 1 (predecessor "E-1") resolves by key to Epic 1, and
\* the parentId E-1 of Feature 3 resolves to Epic 1 only
C24_Witness ==
    /\ dependenciesDrawn /\ settings.showPredecessors /\ settings.showParentChild
    /\ allDated(allRows)
    /\ [i \in 1..Len(allRows) |-> allRows[i].data.id] = <<"E-1", "M-4", "F-1", "F-3">>
    /\ sourcesInto("predecessor", 4) = {3}
    /\ sourcesInto("predecessor", 3) = {1}
    /\ sourcesInto("predecessor", 2) = {4}
    /\ sourcesInto("parentChild", 4) = {1}

(***************************************************************************)
(* Bars: an engine is configured as render configures it, and the bar of   *)
(* a Feature or an Epic is placed by the engine and by renderTimelineRow   *)
(***************************************************************************)
\* days from viewStart (1 March 2025) of the dates of an item
BarDays == {-400, -1, 0, 9, 30, 39, MaxDay}
BarDate(z, dated, k) == IF dated THEN <<NewDate(z, 2025, 2, 1 + k, 0, 0)>> ELSE Null
BarZones == {"UTC", "Australia/Sydney"}

\* the bar renderTimelineRow draws for an item that is not a Milestone: none
\* without both dates
timelineBars(z, visualStart, dayWidth, startDate, targetDate) ==
    IF startDate = Null \/ targetDate = Null THEN {}
    ELSE {[x |-> product(fromInteger(daysBetween(z, visualStart, startDate[1])), dayWidth),
           width |-> barWidth(
               product(fromInteger(daysBetween(z, visualStart, startDate[1])), dayWidth),
               product(fromInteger(daysBetween(z, visualStart, targetDate[1])), dayWidth),
               dayWidth)]}

InitBar ==
    /\ unit = "bar"
    /\ \E z \in BarZones, ts \in TIME_SCALES, zoom \in ZOOM_LEVELS, i \in BarDays, j \in BarDays,
          started \in BOOLEAN, targeted \in BOOLEAN :
          dateArgs = [zone |-> z,
                      config |-> [viewStart |-> NewDate(z, 2025, 2, 1, 0, 0),
                                  viewEnd |-> NewDate(z, 2025, 2, 1 + MaxDay, 0, 0),
                                  timeScale |-> ts, zoomLevel |-> zoom],
                      startDate |-> BarDate(z, started, i),
                      targetDate |-> BarDate(z, targeted, j)]
    /\ dateOut = <<>> /\ engine = <<>>
    /\ calls = 0
    /\ IdleVisual /\ IdleCull

\* the engine's getBarBounds for the dates of the item (when it has both), and
\* the bar of the timeline row, drawn with this.viewStart and the engine's
\* dayWidth
BarBounds ==
    /\ unit = "bar"
    /\ calls = 0
    /\ dateOut' =
          [bounds |-> IF dateArgs.startDate = Null \/ dateArgs.targetDate = Null THEN {}
                      ELSE {getBarBounds(dateArgs.zone, dateArgs.config,
                                         dateArgs.startDate[1], dateArgs.targetDate[1])},
           bars |-> timelineBars(dateArgs.zone, dateArgs.config.viewStart,
                                 Signed(FALSE, calculateDayWidth(dateArgs.config)),
                                 dateArgs.startDate, dateArgs.targetDate)]
    /\ calls' = 1
    /\ UNCHANGED <<visualVars, cullVars, dateArgs, engine, unit>>

NextBar == BarBounds
SpecBar == InitBar /\ [][NextBar]_vars

barPlaced == unit = "bar" /\ calls = 1 /\ dateOut.bounds # {}
startXOf(args) == dateToXOf(args.zone, args.config, args.startDate[1])
endXOf(args) == dateToXOf(args.zone, args.config, args.targetDate[1])
dayWidthOf(args) == Signed(FALSE, calculateDayWidth(args.config))

\* C25: getBarBounds(start, end) has x = dateToX(start) and width =
\* max(dateToX(end) - dateToX(start) + dayWidth, 30), for dates before, in and
\* after the view, in either order, at every time scale and zoom level; the
\* width is never below 30; and the bar renderTimelineRow draws has the same x
\* and width.
C25_BarBounds ==
    barPlaced =>
        \A bounds \in dateOut.bounds :
            /\ bounds.x = startXOf(dateArgs)
            /\ LET span == sum(difference(endXOf(dateArgs), startXOf(dateArgs)),
                               dayWidthOf(dateArgs))
               IN  bounds.width = IF lessThan(span, fromInteger(MIN_BAR_WIDTH))
                                  THEN fromInteger(MIN_BAR_WIDTH) ELSE span
            /\ ~lessThan(bounds.width, fromInteger(MIN_BAR_WIDTH))
            /\ dateOut.bars = {bounds}

\* C25 witness: at monthly scale and zoom 1 (2 px a day) an item from 10 March
\* to 9 April 2025 in a view from 1 March is a bar at 18 px, 62 px wide
C25_Witness ==
    /\ barPlaced
    /\ dateArgs.config.timeScale = "monthly" /\ dateArgs.config.zoomLevel = decimal(1, 0)
    /\ dateArgs.startDate = <<NewDate(dateArgs.zone, 2025, 2, 10, 0, 0)>>
    /\ dateArgs.targetDate = <<NewDate(dateArgs.zone, 2025, 2, 40, 0, 0)>>
    /\ dateOut.bars = {[x |-> fromInteger(18), width |-> fromInteger(62)]}

\* an inverted or one-day range at a narrow scale is a bar of the minimum width
MinimumWidthBar ==
    (barPlaced /\ dateArgs.startDate = <<NewDate(dateArgs.zone, 2025, 2, 31, 0, 0)>>
        /\ dateArgs.targetDate = <<NewDate(dateArgs.zone, 2025, 2, 1, 0, 0)>>) =>
        \A bounds \in dateOut.bounds :
            /\ bounds.width = fromInteger(MIN_BAR_WIDTH)
            /\ bounds.x = product(fromInteger(30), dayWidthOf(dateArgs))

(***************************************************************************)
(* iterateDays: an engine is constructed for a window and its generator is *)
(* invoked and run to completion, twice                                    *)
(***************************************************************************)
MaxSpan == 5    \* the longest window, in days

\* 1 March, 4 April and 4 October 2025
IterateStarts(z) ==
    {NewDate(z, 2025, 2, 1, 0, 0), NewDate(z, 2025, 3, 4, 0, 0), NewDate(z, 2025, 9, 4, 0, 0)}

InitIterate ==
    /\ unit = "iterateDays"
    /\ \E z \in CoordZones, span \in (-2)..MaxSpan :
          \E viewStart_ \in IterateStarts(z) :
              /\ dateArgs = [zone |-> z]
              /\ engine = CoordinateEngine(z,
                             [viewStart |-> viewStart_,
                              viewEnd |-> addDays(z, viewStart_, span),
                              timeScale |-> "daily", zoomLevel |-> decimal(1, 0),
                              leftPanelWidth |-> LEFT_PANEL_WIDTH])
    /\ dateOut = [i |-> 0, pairs |-> <<>>, done |-> TRUE, sequences |-> <<>>]
    /\ calls = 0
    /\ IdleVisual /\ IdleCull

\* the date of a day offset from viewStart
getDateAtOffset(z, e, dayOffset) == addDays(z, e.config.viewStart, dayOffset)

\* engine.iterateDays(): a new generator, positioned before the loop
IterateDays ==
    /\ unit = "iterateDays"
    /\ dateOut.done /\ calls < 2
    /\ dateOut' = [dateOut EXCEPT !.i = 0, !.pairs = <<>>, !.done = FALSE]
    /\ calls' = calls + 1
    /\ UNCHANGED <<visualVars, cullVars, dateArgs, engine, unit>>

\* generator.next(): the loop test, then either a yield of [i, date] and i++,
\* or the end of the generator
IterateNext ==
    /\ unit = "iterateDays"
    /\ ~dateOut.done
    /\ IF dateOut.i < engine.totalDays
       THEN dateOut' = [dateOut EXCEPT
                           !.pairs = Append(@, <<dateOut.i,
                                                 getDateAtOffset(dateArgs.zone, engine,
                                                                 dateOut.i)>>),
                           !.i = @ + 1]
       ELSE dateOut' = [dateOut EXCEPT !.done = TRUE,
                                       !.sequences = Append(@, dateOut.pairs)]
    /\ UNCHANGED <<visualVars, cullVars, dateArgs, engine, unit, calls>>

NextIterate == IterateDays \/ IterateNext
SpecIterate == InitIterate /\ [][NextIterate]_vars

\* the pairs (k, addDays(viewStart, k)) for k = 0 .. n - 1
dayPairs(z, e, n) ==
    AsSeq([k \in 1..Max(n, 0) |-> <<k - 1, addDays(z, e.config.viewStart, k - 1)>>])

\* C26: an invocation of iterateDays yields, in increasing dayIndex order
\* from 0, one pair (dayIndex, addDays(viewStart, dayIndex)) for each calendar
\* day from viewStart through viewEnd and then ends; a second invocation
\* yields the same sequence; an empty or inverted window yields nothing.
C26_IterateDays ==
    unit = "iterateDays" =>
        /\ dateOut.i <= Max(engine.totalDays, 0)
        /\ \A r \in 1..Len(dateOut.sequences) :
              dateOut.sequences[r]
                = IF dayNumber(dateArgs.zone, engine.config.viewEnd)
                        <= dayNumber(dateArgs.zone, engine.config.viewStart)
                  THEN <<>>
                  ELSE dayPairs(dateArgs.zone, engine,
                                dayNumber(dateArgs.zone, engine.config.viewEnd)
                                  - dayNumber(dateArgs.zone, engine.config.viewStart) + 1)

\* what iterateDays does yield: one pair for each calendar day from viewStart
\* to the day before viewEnd, each on its own calendar day, the same in both
\* invocations, and nothing for an empty or inverted window
IterateDaysHalfOpen ==
    unit = "iterateDays" =>
        /\ dateOut.i <= Max(engine.totalDays, 0)
        /\ \A r \in 1..Len(dateOut.sequences) :
              /\ dateOut.sequences[r]
                    = dayPairs(dateArgs.zone, engine,
                               dayNumber(dateArgs.zone, engine.config.viewEnd)
                                 - dayNumber(dateArgs.zone, engine.config.viewStart))
              /\ \A k \in 1..Len(dateOut.sequences[r]) :
                    dayNumber(dateArgs.zone, dateOut.sequences[r][k][2])
                      = dayNumber(dateArgs.zone, engine.config.viewStart) + k - 1

\* both invocations of a window of 4 April to 9 April 2025 in Sydney (across
\* the end of daylight saving) have ended with 5 pairs, the last on 8 April
IterateDaysTwice ==
    /\ unit = "iterateDays" /\ calls = 2 /\ dateOut.done
    /\ dateArgs.zone = "Australia/Sydney"
    /\ engine.config.viewStart = NewDate(dateArgs.zone, 2025, 3, 4, 0, 0)
    /\ engine.totalDays = 5
    /\ Len(dateOut.sequences) = 2
    /\ Len(dateOut.sequences[1]) = 5
    /\ dateOut.sequences[2] = dateOut.sequences[1]
    /\ dateOut.sequences[1][5] = <<4, NewDate(dateArgs.zone, 2025, 3, 8, 0, 0)>>

(***************************************************************************)
(* Row layout of items whose parentId values form cycles                   *)
(***************************************************************************)
\* Epic 1 is its own parent, Epics 2 and 3 are each other's parent, Feature 4
\* names its own number as parent, Feature 5 and Milestone 6 are children of
\* Epics that are in a cycle
CyclicPool ==
    { RawRow(1, "Epic", 1, <<"Alpha">>),
      RawRow(2, "Epic", 3, <<"Proj", "Beta">>),
      RawRow(3, "Epic", 2, <<>>),
      RawRow(4, "Feature", 4, <<"Alpha">>),
      RawRow(5, "Feature", 1, <<"Proj", "Beta">>),
      RawRow(6, "Milestone", 2, <<"Alpha">>) }

\* the tables of up to MaxItems distinct rows of a pool
RECURSIVE TablesOver(_, _)
TablesOver(pool, n) ==
    IF n = 0 THEN {<<>>}
    ELSE {Append(t, r) : t \in TablesOver(pool, n - 1), r \in pool}
DistinctTables(pool) ==
    {t \in UNION {TablesOver(pool, n) : n \in 0..MaxItems} :
        \A i, j \in 1..Len(t) : i # j => t[i] # t[j]}

CyclicTables == DistinctTables(CyclicPool)

CyclicSettings ==
    {s \in LayoutSettings : s.rowDensity = "compact" /\ s.showMilestones /\ ~s.pdfMode}

InitCycles ==
    /\ unit = "rows"
    /\ zone = "UTC" /\ viewStart = 0 /\ viewEnd = 0
    /\ connectors = <<>> /\ events = <<>>
    /\ \E t \in CyclicTables : hostTable = t /\ workItems = parseData(zone, t)
    /\ settings \in CyclicSettings
    /\ collapsed \in CollapsedSets
    /\ allRows = <<>> /\ renderedRowIds = {} /\ rowPositions = {} /\ domRows = {}
    /\ currentScrollTop = 0 /\ view = "blank"
    /\ calls = 0
    /\ IdleCull /\ IdleDate

SpecCycles == InitCycles /\ [][NextRows]_vars

rowsLaidOut == unit = "rows" /\ calls = 1

\* the rows at level 1 below the level-0 row i, up to the next level-0 row
childRowsOf(rows, i) ==
    {j \in (i + 1)..Len(rows) : \A k \in (i + 1)..j : rows[k].level = 1}

\* C27: whatever the parentId values (an Epic that is its own parent, Epics
\* that are each other's parent, an item that names its own number),
\* buildRows ends with a finite row list in which every item is on at most
\* one row, every row has level 0 or 1, no Epic is a level-1 row in hierarchy
\* mode, and only Epic rows and group headers have child rows.
C27_NoCycleDetectionNeeded ==
    rowsLaidOut =>
        /\ \A i, j \in itemRowsOf(allRows) : allRows[i].data = allRows[j].data => i = j
        /\ \A i \in 1..Len(allRows) :
              /\ allRows[i].level \in {0, 1}
              /\ (settings.groupBy = "epic" /\ allRows[i].type = "Epic")
                    => allRows[i].level = 0
              /\ (allRows[i].level = 0 /\ allRows[i].type \notin {"Epic", "GroupHeader"})
                    => childRowsOf(allRows, i) = {}
        /\ (allRows # <<>>) => allRows[1].level = 0

\* C27 witness: the Epics 2 and 3 are each other's parent and Milestone 6 is a
\* child of Epic 2: the rows are Epic 2, Milestone 6 at level 1, Epic 3
C27_Witness ==
    /\ rowsLaidOut /\ settings.groupBy = "epic" /\ settings.showHierarchy
    /\ [i \in 1..Len(workItems) |-> <<workItems[i].id, workItems[i].parentId>>]
          = << <<"E-2", "E-3">>, <<"E-3", "E-2">>, <<"M-6", "E-2">> >>
    /\ [i \in 1..Len(allRows) |-> <<allRows[i].data.id, allRows[i].level>>]
          = << <<"E-2", 0>>, <<"M-6", 1>>, <<"E-3", 0>> >>

\* an Epic that is its own parent is one level-0 row with its children below
SelfParentEpic ==
    /\ rowsLaidOut /\ settings.groupBy = "epic" /\ settings.showHierarchy
    /\ [i \in 1..Len(workItems) |-> <<workItems[i].id, workItems[i].parentId>>]
          = << <<"F-4", "E-4">>, <<"E-1", "E-1">>, <<"F-5", "E-1">> >>
    /\ [i \in 1..Len(allRows) |-> <<allRows[i].data.id, allRows[i].level>>]
          = << <<"E-1", 0>>, <<"F-5", 1>> >>

(***************************************************************************)
(* Row layout of items without a parent row                                *)
(***************************************************************************)
\* Feature 3 and Task 7 are children of Epic 1, Milestone 4 has no parent,
\* Feature 5 names an Epic 9 that is not in the data
OrphanPool ==
    { RawRow(1, "Epic", 0, <<"Alpha">>),
      RawRow(2, "Epic", 0, <<>>),
      RawRow(3, "Feature", 1, <<"Alpha">>),
      RawRow(4, "Milestone", 0, <<"Proj", "Beta">>),
      RawRow(5, "Feature", 9, <<"Alpha">>),
      RawRow(7, "Task", 1, <<>>) }

OrphanSettings == {s \in LayoutSettings : s.rowDensity = "compact" /\ s.showMilestones}

InitOrphans ==
    /\ unit = "rows"
    /\ zone = "UTC" /\ viewStart = 0 /\ viewEnd = 0
    /\ connectors = <<>> /\ events = <<>>
    /\ \E t \in DistinctTables(OrphanPool) : hostTable = t /\ workItems = parseData(zone, t)
    /\ settings \in OrphanSettings
    /\ collapsed \in CollapsedSets
    /\ allRows = <<>> /\ renderedRowIds = {} /\ rowPositions = {} /\ domRows = {}
    /\ currentScrollTop = 0 /\ view = "blank"
    /\ calls = 0
    /\ IdleCull /\ IdleDate

SpecOrphans == InitOrphans /\ [][NextRows]_vars

epicsShownLaidOut == rowsLaidOut /\ settings.groupBy = "epic" /\ settings.showEpics

hasRow(rows, w) == \E i \in 1..Len(rows) : rows[i].type # "GroupHeader" /\ rows[i].data = w
expandedEpicRow(rows, key) ==
    \E i \in 1..Len(rows) :
        rows[i].type = "Epic" /\ rows[i].data.id = key /\ ~rows[i].collapsed

\* C28 as stated: in hierarchy mode with Epics shown, a visible non-Epic item
\* has a row iff its parentId is the key of a visible Epic that is emitted
\* expanded.
C28_Original ==
    epicsShownLaidOut =>
        \A k \in 1..Len(workItems) :
            (workItems[k].type # "Epic" /\ isVisibleItem(settings, workItems[k])) =>
                (hasRow(allRows, workItems[k])
                    <=> expandedEpicRow(allRows, workItems[k].parentId))

\* C28 amended: in hierarchy mode with Epics shown, a visible non-Epic item
\* has a row iff it is a Milestone or a Feature, showHierarchy is on and its
\* parentId is the key of a visible Epic that is emitted expanded; every other
\* visible non-Epic item (no parentId, a parentId that matches no visible
\* Epic, another type, showHierarchy off) has no row.
C28_OrphansDropped ==
    epicsShownLaidOut =>
        \A k \in 1..Len(workItems) :
            (workItems[k].type # "Epic" /\ isVisibleItem(settings, workItems[k])) =>
                (hasRow(allRows, workItems[k])
                    <=> /\ workItems[k].type \in {"Milestone", "Feature"}
                        /\ settings.showHierarchy
                        /\ expandedEpicRow(allRows, workItems[k].parentId))

\* C28 witness: nothing is collapsed; Feature 3 is below Epic 1, Milestone 4
\* (no parentId) and Feature 5 (parent E-9, not in the data) have no row: one
\* row for three visible items
C28_Witness ==
    /\ epicsShownLaidOut /\ settings.showHierarchy /\ collapsed = {}
    /\ settings.showFeatures /\ settings.showMilestones
    /\ [i \in 1..Len(workItems) |-> <<workItems[i].id, workItems[i].parentId>>]
          = << <<"M-4", NoId>>, <<"E-1", NoId>>, <<"F-5", "E-9">> >>
    /\ [i \in 1..Len(allRows) |-> allRows[i].data.id] = <<"E-1">>

(***************************************************************************)
(* Collapse state across update cycles                                     *)
(***************************************************************************)
updateCycle == DataRefresh \/ FormatChange \/ NoDataView

\* the keys that are in one of two sets only
flipped(before, after) == (before \ after) \cup (after \ before)

\* the parent rows are emitted collapsed exactly when their key is in the set
emittedAsCollapsed(rows, coll) ==
    \A i \in 1..Len(rows) : rows[i].isParent => (rows[i].collapsed <=> toggleKey(rows[i]) \in coll)

\* a toggle flips the key of a rendered parent row and no other
toggleFlipsOneKey ==
    ToggleCollapse =>
        \E i \in domRows :
            /\ allRows[i].isParent
            /\ flipped(collapsed, collapsed') = {toggleKey(allRows[i])}

\* C29: toggleCollapse(k) flips the membership of the key k and of no other
\* key; an update cycle leaves the collapsed set as it was, and a cycle with
\* pdfMode off that renders the roadmap emits every Epic and group whose key
\* is in the set collapsed (Epic keys are the composite id, group keys
\* "grp-" + name): the set changes by toggles only.
C29_CollapsePersists ==
    [][/\ toggleFlipsOneKey
       /\ updateCycle =>
            /\ collapsed' = collapsed
            /\ (view' = "roadmap" /\ ~settings'.pdfMode)
                  => emittedAsCollapsed(allRows', collapsed)]_vars

\* what holds: a toggle flips one key, an update cycle with pdfMode off keeps
\* the set and emits its Epics and groups collapsed, and an update cycle with
\* pdfMode on that renders the roadmap empties the set
CollapsedUntilPdfCycle ==
    [][/\ toggleFlipsOneKey
       /\ (updateCycle /\ ~settings'.pdfMode) =>
            /\ collapsed' = collapsed
            /\ view' = "roadmap" => emittedAsCollapsed(allRows', collapsed)
       /\ (updateCycle /\ settings'.pdfMode /\ view' = "roadmap") => collapsed' = {}]_vars

(***************************************************************************)
(* Scrolling between update cycles                                         *)
(***************************************************************************)
\* the positions of the rows that render marks visible at a scroll offset,
\* and the ids of those of them that carry a work item
markedVisible(rows, s, scrollTop, height) ==
    {i \in 1..Len(rows) : visibleRowBounds(rows, s, scrollTop, height)[i].isVisible}
idsOf(rows, positions) == {rows[i].data.id : i \in {j \in positions : rows[j].data # NoItem}}

\* everything of the visual but the recorded scroll offset
besidesScrollTop ==
    <<hostTable, workItems, settings, collapsed, allRows, renderedRowIds, rowPositions,
      domRows, view, zone, viewStart, viewEnd, connectors, events>>

\* C30: a step that changes the recorded scroll offset (a scroll event)
\* changes nothing else: the rendered rows, renderedRowIds and rowPositions
\* stay those of the last update; an update leaves the recorded offset as it
\* is, and one that renders the roadmap rebuilds the rendered set as the rows
\* marked visible for the new row list at the offset recorded by the last
\* scroll event.
C30_ScrollOnlyRecordsOffsets ==
    [][/\ currentScrollTop' # currentScrollTop => UNCHANGED besidesScrollTop
       /\ (BulkDataRefresh \/ BulkFormatChange \/ NoDataView) =>
            /\ currentScrollTop' = currentScrollTop
            /\ view' = "roadmap" =>
                  \E h \in Heights :
                      /\ domRows' = markedVisible(allRows', settings', currentScrollTop, h)
                      /\ renderedRowIds' = idsOf(allRows', domRows')
                      /\ rowPositions' = renderedRowIds'
            /\ view' # "roadmap" => rowPositions' = {} /\ domRows' = {}]_vars

\* C30 witness: the update after a scroll to 3000 px has culled the 101 rows
\* against that offset: the first rows are not rendered, the row at 3000 px is
C30_Witness ==
    /\ unit = "visual" /\ view = "roadmap" /\ ~settings.pdfMode
    /\ Len(allRows) >= ENABLE_THRESHOLD
    /\ currentScrollTop = 3000
    /\ 1 \notin domRows
    /\ \E i \in domRows : allRows[i].y <= 3000 /\ 3000 <= allRows[i].y + allRows[i].height
    /\ renderedRowIds = idsOf(allRows, domRows)

\* after a scroll to 3000 px and before the next update the rendered rows are
\* still those of the top of the list
ScrolledNotYetUpdated ==
    /\ unit = "visual" /\ view = "roadmap" /\ ~settings.pdfMode
    /\ Len(allRows) >= ENABLE_THRESHOLD
    /\ currentScrollTop = 3000
    /\ 1 \in domRows
    /\ \A i \in domRows : allRows[i].y + allRows[i].height < 3000 - BUFFER_PX

=============================================================================
